---- MODULE Spec2Model ----
(***************************************************************************)
(* Model of the go-nakadi stream engine (StreamAPI, streams.go), its       *)
(* reader (simpleStream) and its committer (simpleCommitter).              *)
(*                                                                         *)
(* Three processes share the engine: the background worker started by      *)
(* NewStream (startStream), a consumer calling NextEvents and Close, and a *)
(* caller of CommitCursor.  Each action is one step of one of them between *)
(* two points at which the code blocks or selects.  The broker, the        *)
(* network and the clock are the environment: which open attempt fails,    *)
(* which line a connection delivers next, how a commit request is answered *)
(* and when the backoff's elapsed time runs out are chosen with \/ and \E. *)
(***************************************************************************)
EXTENDS Integers, Sequences, FiniteSets, TLC

(* ------------------------------ bounds --------------------------------- *)

\* capacity of eventCh; NewStream makes the channel with capacity 10, the
\* model runs the same code on a shorter channel
ChanCap == 2

\* number of streams the broker lets the opener open successfully
MaxOpens == 2

\* number of lines with events, or read failures, the connections deliver
MaxReads == 3

\* number of NextEvents calls the consumer makes
MaxCalls == 3

\* number of notifyErr invocations before the environment stops failing
MaxNotifyErr == 1

\* number of committer attempts within one CommitCursor call before the
\* elapsed time of the commit backoff has run out
MaxAttempts == 2

(* ------------------------------ values --------------------------------- *)

\* error values; s names the connection a read error belongs to
NoErr == [k |-> "nil", s |-> 0]

Canceled == [k |-> "canceled", s |-> 0]

OpenErr == [k |-> "open", s |-> 0]

ReadErr(n) == [k |-> "read", s |-> n]

CommitRejected == [k |-> "rejected", s |-> 0]

CommitFailed == [k |-> "commit", s |-> 0]

\* Cursor{}: the zero cursor (NakadiStreamID is the empty string, here 0)
ZeroCursor == [sid |-> 0, off |-> 0]

\* eventsOrError{}: what a receive from the closed channel yields
ZeroItem == [cursor |-> ZeroCursor, events |-> <<>>, err |-> NoErr]

\* the X-Nakadi-StreamId the broker puts in the response of the n-th stream
BrokerStreamId(n) == 10 + n

\* lines the broker writes on connection n.  The cursor of a line carries no
\* stream id (the field is tagged json:"-"); the payload of a batch names the
\* connection and the position it was written at.
BatchLine(n, k) ==
    [kind |-> "batch", cursor |-> [sid |-> 0, off |-> k],
     events |-> <<[conn |-> n, pos |-> k]>>]

KeepAliveLine ==
    [kind |-> "keepalive", cursor |-> [sid |-> 0, off |-> 0], events |-> <<>>]

FailedRead ==
    [kind |-> "fail", cursor |-> ZeroCursor, events |-> <<>>]

\* simpleStreamOpener.openStream, success path: the reader captures the
\* stream id of the response header
NewSimpleStream(n) == [nakadiStreamID |-> BrokerStreamId(n), closed |-> FALSE]

\* faulty variant of nextEvents: the cursor is returned as it was decoded
NextEventsNoStamp(st, n, line) ==
    IF st.closed \/ line.kind = "fail"
    THEN [cursor |-> ZeroCursor, events |-> <<>>, err |-> ReadErr(n)]
    ELSE [cursor |-> line.cursor, events |-> line.events, err |-> NoErr]

\* simpleStream.nextEvents on reader st (the n-th one) when the connection
\* delivers line: the error is wrapped, the cursor is stamped with the id
\* the reader captured, a line without events yields nil events
nextEvents(st, n, line) ==
    IF st.closed \/ line.kind = "fail"
    THEN [cursor |-> ZeroCursor, events |-> <<>>, err |-> ReadErr(n)]
    ELSE [cursor |-> [line.cursor EXCEPT !.sid = st.nakadiStreamID],
          events |-> line.events, err |-> NoErr]

\* simpleStream.closeStream
closeStream(st) == [st EXCEPT !.closed = TRUE]

\* faulty variant of CommitRequest: the header names the current stream
CommitRequestCurrentStream(cursor, cur) ==
    [hdr |-> cur, body |-> [off |-> cursor.off]]

\* simpleCommitter.commitCursor: the request it builds for a cursor.  The
\* header is the stream id stored in the cursor; cur, the id of the stream
\* the engine currently reads from, plays no part.
CommitRequest(cursor, cur) ==
    [hdr |-> cursor.sid, body |-> [off |-> cursor.off]]

(* ------------------------------ state ---------------------------------- *)

VARIABLES
    ctxDone,      \* s.ctx is cancelled (Close was called)
    wpc,          \* position of the worker in startStream
    streams,      \* every reader the opener returned, in order
    stream,       \* index of the worker's current reader, 0 if none
    cur,          \* the worker's locals cursor, events, err
    eventCh,      \* content of s.eventCh
    chClosed,     \* close(s.eventCh) was executed
    reads,        \* lines with events and read failures obtained so far
    produced,     \* history: the worker's results other than keep-alives
    delivered,    \* history: what each NextEvents call returned
    openNotify,   \* history: notifyErr and notifyOK invocations of the worker
    commitRetry,  \* StreamOptions.CommitRetry
    cpc,          \* position of the caller inside CommitCursor
    commitCur,    \* the cursor CommitCursor was called with
    commitErr,    \* err of CommitCursor
    attempts,     \* committer attempts of the running CommitCursor call
    commitNotify, \* notifyErr and notifyOK invocations of this CommitCursor call
    lastReq,      \* the last request of this CommitCursor call and its answer
    timedOut      \* the commit backoff stopped this call: elapsed time exceeded

\* the processor (processor.go)
VARIABLES
    isStarted,    \* Processor.isStarted
    pctxDone,     \* p.ctx is cancelled
    rateLimited,  \* p.timePerBatchPerStream > 0
    spc,          \* position of the caller inside Stop
    received,     \* Stop: close results received so far (i)
    errCount,     \* Stop: errCount
    startResult,  \* what the last Start call returned
    stopResult,   \* what the last Stop call returned
    starts,       \* number of Start calls made
    stops,        \* number of Stop calls made
    ppc,          \* position of each worker in startSingleStream
    pstream,      \* each worker's local stream: index into engines, 0 if none
    pcursor,      \* each worker's local cursor
    pcloseRes,    \* the close result each worker sends on closeErrorCh
    engines,      \* every engine newStream returned, in order
    blog,         \* history: per batch, the operation and commit calls made
    hooks         \* history: the ProcessorOptions hook invocations made by
                  \* the latest engine call of a worker

vars == <<ctxDone, wpc, streams, stream, cur, eventCh, chClosed, reads,
          produced, delivered, openNotify, commitRetry, cpc, commitCur,
          commitErr, attempts, commitNotify, lastReq, timedOut>>

procVars == <<isStarted, pctxDone, rateLimited, spc, received, errCount,
              startResult, stopResult, starts, stops, ppc, pstream, pcursor,
              pcloseRes, engines, blog, hooks>>

\* the publish batcher (batcher.go)
VARIABLES
    eventsChannel,  \* content of p.eventsChannel: the events waiting in it
    chanClosed,     \* close(p.eventsChannel) was executed
    dpc,            \* position of dispatchThread
    batch,          \* dispatchThread's local batch
    deadline,       \* finishBatchCollectionAt: "nil", "set" or "passed"
    ppcall,         \* position of each single-event Publish call
    publishResult,  \* content of each call's publishResult channel
    returned,       \* what each single-event Publish call returned
    spcall,         \* position of each slice Publish call
    sreturned,      \* what each slice Publish call returned
    clpc,           \* position of the caller inside Close
    arrived,        \* history: the events in the order they entered the queue
    requests        \* history: the calls of publishAPI.Publish

batVars == <<eventsChannel, chanClosed, dpc, batch, deadline, ppcall,
             publishResult, returned, spcall, sreturned, clpc, arrived,
             requests>>

\* the HTTP request core of the Client: the method and the configuration of
\* the call, the position in backoff.Retry, and the history of the call
VARIABLES
    hmethod,        \* the method of the call
    hprovider,      \* c.tokenProvider is not nil
    hretry,         \* backOffConfiguration.Retry of the call's policy
    hurl,           \* the url of the call: "valid" or "invalid"
    hleft,          \* further attempts the backoff policy grants
    hpc,            \* position inside backoff.Retry and the operation
    hreader,        \* what is left to read in the payload reader of a POST
    hstatus,        \* status of the last response, 0 without a response
    hattempts,      \* history: the number of calls of the operation
    hsent,          \* history: the number of calls of httpClient.Do
    hfailures,      \* history: the attempts the policy was asked about
    hbodies,        \* history: the request body of each call of Do
    htokenFailedAt, \* history: the attempt on which the provider failed
    hresult,        \* the error of the last attempt, then of the call
    pbody,          \* the body of the response PublishAPI.Publish handles
    presult         \* what PublishAPI.Publish returned

httpVars == <<hmethod, hprovider, hretry, hurl, hleft, hpc, hreader, hstatus,
              hattempts, hsent, hfailures, hbodies, htokenFailedAt, hresult,
              pbody, presult>>

\* one reader (simpleStream) and the callers that use it one after the other
VARIABLES
    rbuffer,        \* s.buffer is not nil
    rlines,         \* complete lines held in the buffer of s.buffer
    rbody,          \* the response body behind s.closer: "open" or "closed"
    rpc,            \* position of the caller inside nextEvents
    rtimer,         \* the timer of the latest readLineTimeout
    rlast,          \* what the latest nextEvents call returned
    rreads,         \* history: the calls of s.buffer.ReadSlice
    rcalls,         \* history: the calls of nextEvents
    rcloses         \* history: the calls of closeStream

readerVars == <<rbuffer, rlines, rbody, rpc, rtimer, rlast, rreads, rcalls,
                rcloses>>

allVars == <<vars, procVars, batVars, httpVars, readerVars>>

\* what the actions of one component leave alone
outsideEngine == <<procVars, batVars, httpVars, readerVars>>

outsideProcessor == <<vars, batVars, httpVars, readerVars>>

outsideBatcher == <<vars, procVars, httpVars, readerVars>>

outsideHttp == <<vars, procVars, batVars, readerVars>>

outsideReader == <<vars, procVars, batVars, httpVars>>

workerVars == <<wpc, streams, stream, cur, eventCh, chClosed, reads, produced>>

commitVars == <<cpc, commitCur, commitErr, attempts, commitNotify, lastReq,
                timedOut>>

\* the hooks: each invocation is counted where it is made
NoNotify == [err |-> 0, ok |-> 0]

NotifyErr(n) == [n EXCEPT !.err = @ + 1]

NotifyOK(n) == [n EXCEPT !.ok = @ + 1]

\* before the first request of a CommitCursor call
NoRequest ==
    [cursor |-> ZeroCursor, req |-> CommitRequest(ZeroCursor, 0), resp |-> NoErr]

\* Start or Stop has not been called yet
NoResult == [k |-> "none", s |-> 0]

\* an error of Processor.Stop counting n failed closes
CloseCountErr(n) == [k |-> "closeCount", s |-> n]

\* the single reader is not part of this specification
ReaderIdle ==
    /\ rbuffer = FALSE
    /\ rlines = 0
    /\ rbody = "closed"
    /\ rpc = "off"
    /\ rtimer = "off"
    /\ rlast = "none"
    /\ rreads = 0
    /\ rcalls = 0
    /\ rcloses = 0

\* the HTTP request core is not part of this specification: no call is made
HttpIdle ==
    /\ hmethod = "none"
    /\ hprovider = FALSE
    /\ hretry = FALSE
    /\ hurl = "valid"
    /\ hleft = 0
    /\ hpc = "off"
    /\ hreader = "all"
    /\ hstatus = 0
    /\ hattempts = 0
    /\ hsent = 0
    /\ hfailures = 0
    /\ hbodies = <<>>
    /\ htokenFailedAt = 0
    /\ hresult = NoResult
    /\ pbody = "none"
    /\ presult = "none"

\* the publish batcher is not part of this specification
BatcherIdle ==
    /\ eventsChannel = <<>>
    /\ chanClosed = FALSE
    /\ dpc = "off"
    /\ batch = <<>>
    /\ deadline = "nil"
    /\ ppcall = <<>>
    /\ publishResult = <<>>
    /\ returned = <<>>
    /\ spcall = <<>>
    /\ sreturned = <<>>
    /\ clpc = "idle"
    /\ arrived = <<>>
    /\ requests = <<>>

\* the processor is not part of this specification: it stays as constructed
ProcIdle ==
    /\ isStarted = FALSE
    /\ pctxDone = FALSE
    /\ rateLimited = FALSE
    /\ spc = "idle"
    /\ received = 0
    /\ errCount = 0
    /\ startResult = NoResult
    /\ stopResult = NoResult
    /\ starts = 0
    /\ stops = 0
    /\ ppc = <<>>
    /\ pstream = <<>>
    /\ pcursor = <<>>
    /\ pcloseRes = <<>>
    /\ engines = <<>>
    /\ blog = <<>>
    /\ hooks = {}

\* NewStream: the channel is empty, the context is live, the worker starts
Init ==
    /\ ctxDone = FALSE
    /\ wpc = "open"
    /\ streams = <<>>
    /\ stream = 0
    /\ cur = ZeroItem
    /\ eventCh = <<>>
    /\ chClosed = FALSE
    /\ reads = 0
    /\ produced = <<>>
    /\ delivered = <<>>
    /\ openNotify = NoNotify
    /\ commitRetry \in BOOLEAN
    /\ cpc = "idle"
    /\ commitCur = ZeroCursor
    /\ commitErr = NoErr
    /\ attempts = 0
    /\ commitNotify = NoNotify
    /\ lastReq = NoRequest
    /\ timedOut = FALSE
    /\ ProcIdle
    /\ BatcherIdle
    /\ HttpIdle
    /\ ReaderIdle

(* --------------------------- the worker -------------------------------- *)

\* startStream, the operation of RetryNotify: one call of opener.openStream.
\* On success RetryNotify returns, notifyOK is invoked and the inner loop
\* starts with zero cursor and events.
WorkerOpen ==
    /\ wpc = "open"
    /\ \/ /\ Len(streams) < MaxOpens
          /\ streams' = Append(streams, NewSimpleStream(Len(streams) + 1))
          /\ stream' = Len(streams) + 1
          /\ openNotify' = NotifyOK(openNotify)
          /\ cur' = ZeroItem
          /\ wpc' = "read"
       \/ /\ ctxDone \/ openNotify.err < MaxNotifyErr
          /\ wpc' = "openErr"
          /\ UNCHANGED <<streams, stream, openNotify, cur>>
    /\ UNCHANGED <<ctxDone, eventCh, chClosed, reads, produced, delivered,
                   commitRetry>>
    /\ UNCHANGED commitVars
    /\ UNCHANGED outsideEngine

\* RetryNotify after a failed open: NextBackOff of the context backoff is
\* Stop once the context is cancelled, RetryNotify then returns the error
\* and startStream continues its outer loop with the next open; otherwise
\* notifyErr is invoked and the timer is started.  The stream backoff has no
\* MaxElapsedTime, so it never stops by itself.
WorkerOpenFailed ==
    /\ wpc = "openErr"
    /\ IF ctxDone
       THEN /\ wpc' = "open"
            /\ UNCHANGED openNotify
       ELSE /\ openNotify' = NotifyErr(openNotify)
            /\ wpc' = "backoff"
    /\ UNCHANGED <<ctxDone, streams, stream, cur, eventCh, chClosed, reads,
                   produced, delivered, commitRetry>>
    /\ UNCHANGED commitVars
    /\ UNCHANGED outsideEngine

\* RetryNotify waiting: the timer fires and the open is called again, or the
\* context is done, RetryNotify returns the error and the outer loop of
\* startStream calls RetryNotify, and with it the open, again
WorkerBackoff ==
    /\ wpc = "backoff"
    /\ wpc' = "open"
    /\ UNCHANGED <<ctxDone, streams, stream, cur, eventCh, chClosed, reads,
                   produced, delivered, openNotify, commitRetry>>
    /\ UNCHANGED commitVars
    /\ UNCHANGED outsideEngine

\* first select of the inner loop: a cancelled context sets err and keeps the
\* cursor and events of the previous round, otherwise the read is started
WorkerSelectRead ==
    /\ wpc = "read"
    /\ IF ctxDone
       THEN /\ cur' = [cur EXCEPT !.err = Canceled]
            /\ wpc' = "send"
       ELSE /\ wpc' = "reading"
            /\ UNCHANGED cur
    /\ UNCHANGED <<ctxDone, streams, stream, eventCh, chClosed, reads,
                   produced, delivered, openNotify, commitRetry>>
    /\ UNCHANGED commitVars
    /\ UNCHANGED outsideEngine

\* what the connection of reader n delivers next
LinesOf(n) ==
    {KeepAliveLine} \cup
    (IF reads < MaxReads THEN {BatchLine(n, reads + 1), FailedRead} ELSE {})

\* faulty variant of WorkerReading: a keep-alive is sent on like a batch (the
\* older httpStreamAPI.startStream of src/streams.go does so)
WorkerReadingNoSkip ==
    /\ wpc = "reading"
    /\ \E line \in LinesOf(stream) :
          LET res == nextEvents(streams[stream], stream, line) IN
          /\ cur' = res
          /\ wpc' = "send"
          /\ reads' = IF line.kind = "keepalive" THEN reads ELSE reads + 1
          /\ produced' = Append(produced, res)
    /\ UNCHANGED <<ctxDone, streams, stream, eventCh, chClosed, delivered,
                   openNotify, commitRetry>>
    /\ UNCHANGED commitVars
    /\ UNCHANGED outsideEngine

\* stream.nextEvents returns; a result without error and without events is a
\* keep-alive and the loop continues with the next round
WorkerReading ==
    /\ wpc = "reading"
    /\ \E line \in LinesOf(stream) :
          LET res == nextEvents(streams[stream], stream, line) IN
          /\ cur' = res
          /\ IF res.err = NoErr /\ Len(res.events) = 0
             THEN /\ wpc' = "read"
                  /\ UNCHANGED <<reads, produced>>
             ELSE /\ wpc' = "send"
                  /\ reads' = reads + 1
                  /\ produced' = Append(produced, res)
    /\ UNCHANGED <<ctxDone, streams, stream, eventCh, chClosed, delivered,
                   openNotify, commitRetry>>
    /\ UNCHANGED commitVars
    /\ UNCHANGED outsideEngine

\* faulty variant of AfterSend: a reader error does not leave the inner loop
AfterSendNoBreak(err) ==
    IF err = Canceled
    THEN /\ streams' = [streams EXCEPT ![stream] = closeStream(@)]
         /\ chClosed' = TRUE
         /\ stream' = 0
         /\ wpc' = "done"
    ELSE /\ wpc' = "read"
         /\ UNCHANGED <<streams, stream, chClosed>>

\* faulty variant of AfterSend: a reader error goes back to the open without
\* closing the reader
AfterSendKeepsReader(err) ==
    IF err = NoErr
    THEN /\ wpc' = "read"
         /\ UNCHANGED <<streams, stream, chClosed>>
    ELSE IF err = Canceled
    THEN /\ streams' = [streams EXCEPT ![stream] = closeStream(@)]
         /\ chClosed' = TRUE
         /\ stream' = 0
         /\ wpc' = "done"
    ELSE /\ stream' = 0
         /\ wpc' = "open"
         /\ UNCHANGED <<streams, chClosed>>

\* the code after the second select of the inner loop.  A cancellation closes
\* the reader and the channel and ends the worker; another error closes the
\* reader and goes back to the open; no error goes to the next round.
AfterSend(err) ==
    IF err = NoErr
    THEN /\ wpc' = "read"
         /\ UNCHANGED <<streams, stream, chClosed>>
    ELSE IF err = Canceled
    THEN /\ streams' = [streams EXCEPT ![stream] = closeStream(@)]
         /\ chClosed' = TRUE
         /\ stream' = 0
         /\ wpc' = "done"
    ELSE /\ streams' = [streams EXCEPT ![stream] = closeStream(@)]
         /\ stream' = 0
         /\ wpc' = "open"
         /\ UNCHANGED chClosed

\* faulty variant of WorkerSend: a reader error is not put on the channel
WorkerSendDropsError ==
    /\ wpc = "send"
    /\ \/ /\ ctxDone
          /\ cur' = [cur EXCEPT !.err = Canceled]
          /\ UNCHANGED eventCh
          /\ AfterSend(Canceled)
       \/ /\ cur.err.k = "read"
          /\ UNCHANGED <<eventCh, cur>>
          /\ AfterSend(cur.err)
       \/ /\ cur.err.k # "read"
          /\ Len(eventCh) < ChanCap
          /\ eventCh' = Append(eventCh, cur)
          /\ UNCHANGED cur
          /\ AfterSend(cur.err)
    /\ UNCHANGED <<ctxDone, reads, produced, delivered, openNotify, commitRetry>>
    /\ UNCHANGED commitVars
    /\ UNCHANGED outsideEngine

\* second select of the inner loop: the context is done, or the result is
\* sent on the channel.  Both cases can be ready at once and the runtime
\* picks either.
WorkerSend ==
    /\ wpc = "send"
    /\ \/ /\ ctxDone
          /\ cur' = [cur EXCEPT !.err = Canceled]
          /\ UNCHANGED eventCh
          /\ AfterSend(Canceled)
       \/ /\ Len(eventCh) < ChanCap
          /\ eventCh' = Append(eventCh, cur)
          /\ UNCHANGED cur
          /\ AfterSend(cur.err)
    /\ UNCHANGED <<ctxDone, reads, produced, delivered, openNotify, commitRetry>>
    /\ UNCHANGED commitVars
    /\ UNCHANGED outsideEngine

Worker ==
    \/ WorkerOpen
    \/ WorkerOpenFailed
    \/ WorkerBackoff
    \/ WorkerSelectRead
    \/ WorkerReading
    \/ WorkerSend

(* --------------------------- the consumer ------------------------------ *)

\* faulty variant of NextEventsResults: the received item stays on the channel
NextEventsResultsKeepHead ==
    (IF ctxDone
     THEN {[item |-> [cursor |-> ZeroCursor, events |-> <<>>, err |-> Canceled],
            via |-> "ctx", rest |-> eventCh]}
     ELSE {}) \cup
    (IF Len(eventCh) > 0
     THEN {[item |-> Head(eventCh), via |-> "chan", rest |-> eventCh]}
     ELSE {}) \cup
    (IF Len(eventCh) = 0 /\ chClosed
     THEN {[item |-> ZeroItem, via |-> "closed", rest |-> eventCh]}
     ELSE {})

\* StreamAPI.NextEvents: one select over ctx.Done and the channel; a closed
\* and drained channel is ready too and yields the zero value
NextEventsResults ==
    (IF ctxDone
     THEN {[item |-> [cursor |-> ZeroCursor, events |-> <<>>, err |-> Canceled],
            via |-> "ctx", rest |-> eventCh]}
     ELSE {}) \cup
    (IF Len(eventCh) > 0
     THEN {[item |-> Head(eventCh), via |-> "chan", rest |-> Tail(eventCh)]}
     ELSE {}) \cup
    (IF Len(eventCh) = 0 /\ chClosed
     THEN {[item |-> ZeroItem, via |-> "closed", rest |-> eventCh]}
     ELSE {})

NextEvents ==
    /\ Len(delivered) < MaxCalls
    /\ \E r \in NextEventsResults :
          /\ eventCh' = r.rest
          /\ delivered' = Append(delivered,
                 [item |-> r.item, via |-> r.via, afterClose |-> ctxDone])
    /\ UNCHANGED <<ctxDone, wpc, streams, stream, cur, chClosed, reads,
                   produced, openNotify, commitRetry>>
    /\ UNCHANGED commitVars
    /\ UNCHANGED outsideEngine

\* StreamAPI.Close
Close ==
    /\ ~ctxDone
    /\ ctxDone' = TRUE
    /\ UNCHANGED workerVars
    /\ UNCHANGED <<delivered, openNotify, commitRetry>>
    /\ UNCHANGED commitVars
    /\ UNCHANGED outsideEngine

(* ------------------------ the commit caller ---------------------------- *)

\* cursors the consumer holds: those of the batches NextEvents returned
DeliveredCursors ==
    {delivered[i].item.cursor : i \in {j \in 1..Len(delivered) :
        delivered[j].item.err = NoErr /\ Len(delivered[j].item.events) > 0}}

\* the id of the stream the worker currently reads from, 0 if none
CurrentStreamId == IF stream = 0 THEN 0 ELSE streams[stream].nakadiStreamID

\* what simpleCommitter.commitCursor returns for a request: the error of
\* httpClient.Do, the error decoded from a response with a status of 400 or
\* above, or nil for any other response.  Which of these happens is decided
\* outside the program, whatever the request is.
CommitResponses(req) == {NoErr, CommitRejected, CommitFailed}

\* faulty variant of CommitCursor: a cancelled context ends the call with nil
\* before the committer is invoked
CommitCursorSkipsWhenClosed ==
    /\ cpc = "idle"
    /\ \E c \in DeliveredCursors : commitCur' = c
    /\ cpc' = IF ctxDone THEN "return" ELSE "attempt"
    /\ UNCHANGED <<commitErr, attempts, commitNotify, lastReq, timedOut>>
    /\ UNCHANGED workerVars
    /\ UNCHANGED outsideEngine
    /\ UNCHANGED <<ctxDone, delivered, openNotify, commitRetry>>

\* StreamAPI.CommitCursor is called: the backoff is created and RetryNotify
\* is about to run the operation
CommitCursor ==
    /\ cpc = "idle"
    /\ \E c \in DeliveredCursors : commitCur' = c
    /\ cpc' = "attempt"
    /\ UNCHANGED <<commitErr, attempts, commitNotify, lastReq, timedOut>>
    /\ UNCHANGED workerVars
    /\ UNCHANGED outsideEngine
    /\ UNCHANGED <<ctxDone, delivered, openNotify, commitRetry>>

\* faulty variant of CommitAttempt: notifyOK is invoked after every attempt
CommitAttemptNotifiesAlways ==
    /\ cpc = "attempt"
    /\ LET req == CommitRequest(commitCur, CurrentStreamId) IN
       \E resp \in CommitResponses(req) :
          /\ lastReq' = [cursor |-> commitCur, req |-> req, resp |-> resp]
          /\ attempts' = attempts + 1
          /\ commitErr' = resp
          /\ commitNotify' = NotifyOK(commitNotify)
          /\ cpc' = IF resp = NoErr THEN "return" ELSE "failed"
    /\ UNCHANGED <<commitCur, timedOut>>
    /\ UNCHANGED workerVars
    /\ UNCHANGED outsideEngine
    /\ UNCHANGED <<ctxDone, delivered, openNotify, commitRetry>>

\* the operation of RetryNotify: committer.commitCursor sends one request.
\* On success RetryNotify returns, notifyOK is invoked and nil is returned.
CommitAttempt ==
    /\ cpc = "attempt"
    /\ LET req == CommitRequest(commitCur, CurrentStreamId) IN
       \E resp \in CommitResponses(req) :
          /\ lastReq' = [cursor |-> commitCur, req |-> req, resp |-> resp]
          /\ attempts' = attempts + 1
          /\ commitErr' = resp
          /\ IF resp = NoErr
             THEN /\ commitNotify' = NotifyOK(commitNotify)
                  /\ cpc' = "return"
             ELSE /\ cpc' = "failed"
                  /\ UNCHANGED commitNotify
    /\ UNCHANGED <<commitCur, timedOut>>
    /\ UNCHANGED workerVars
    /\ UNCHANGED outsideEngine
    /\ UNCHANGED <<ctxDone, delivered, openNotify, commitRetry>>

\* faulty variant of CommitAttemptFailed: the first failure ends the call
CommitAttemptFailedNoRetry ==
    /\ cpc = "failed"
    /\ cpc' = "return"
    /\ UNCHANGED <<commitCur, commitErr, attempts, commitNotify, lastReq,
                   timedOut>>
    /\ UNCHANGED workerVars
    /\ UNCHANGED outsideEngine
    /\ UNCHANGED <<ctxDone, delivered, openNotify, commitRetry>>

\* RetryNotify after a failed attempt: NextBackOff is Stop for the stop
\* backoff (CommitRetry off), for a cancelled context and once the elapsed
\* time exceeds CommitMaxElapsedTime; then CommitCursor returns err.
\* Otherwise notifyErr is invoked and the timer is started.
CommitAttemptFailed ==
    /\ cpc = "failed"
    /\ \E elapsed \in (IF attempts >= MaxAttempts THEN {TRUE} ELSE BOOLEAN) :
          IF ~commitRetry \/ ctxDone \/ elapsed
          THEN /\ cpc' = "return"
               /\ timedOut' = (commitRetry /\ ~ctxDone /\ elapsed)
               /\ UNCHANGED commitNotify
          ELSE /\ commitNotify' = NotifyErr(commitNotify)
               /\ cpc' = "wait"
               /\ UNCHANGED timedOut
    /\ UNCHANGED <<commitCur, commitErr, attempts, lastReq>>
    /\ UNCHANGED workerVars
    /\ UNCHANGED outsideEngine
    /\ UNCHANGED <<ctxDone, delivered, openNotify, commitRetry>>

\* RetryNotify waiting: the timer fires and the operation runs again, or the
\* context is done and CommitCursor returns err
CommitWait ==
    /\ cpc = "wait"
    /\ \/ cpc' = "attempt"
       \/ /\ ctxDone
          /\ cpc' = "return"
    /\ UNCHANGED <<commitCur, commitErr, attempts, commitNotify, lastReq,
                   timedOut>>
    /\ UNCHANGED workerVars
    /\ UNCHANGED outsideEngine
    /\ UNCHANGED <<ctxDone, delivered, openNotify, commitRetry>>

\* CommitCursor returns err to its caller; its locals are gone
CommitReturn ==
    /\ cpc = "return"
    /\ cpc' = "idle"
    /\ commitCur' = ZeroCursor
    /\ commitErr' = NoErr
    /\ attempts' = 0
    /\ commitNotify' = NoNotify
    /\ lastReq' = NoRequest
    /\ timedOut' = FALSE
    /\ UNCHANGED workerVars
    /\ UNCHANGED outsideEngine
    /\ UNCHANGED <<ctxDone, delivered, openNotify, commitRetry>>

Committer ==
    \/ CommitCursor
    \/ CommitAttempt
    \/ CommitAttemptFailed
    \/ CommitWait
    \/ CommitReturn

Next ==
    \/ Worker
    \/ NextEvents
    \/ Close
    \/ Committer

Spec == Init /\ [][Next]_allVars

\* the engine while no CommitCursor call is made: the worker and the consumer
StreamNext ==
    \/ Worker
    \/ NextEvents
    \/ Close

\* the worker is a goroutine of its own: it takes its next step whenever it
\* can take one.  CommitCursor neither reads nor writes what the worker and
\* the consumer share, so the progress of the worker is checked without it.
FairSpec == Init /\ [][StreamNext]_allVars /\ WF_allVars(Worker)

(* --------------------------- the processor ----------------------------- *)

\* ProcessorOptions.StreamCount: the number of workers and of engine slots
StreamCount == 2

\* number of batches the engines of the processor deliver
MaxBatches == 2

\* number of times the user operation fails, each recycling one engine
MaxRecycles == 1

\* number of Start calls and of Stop calls made on the processor
MaxStarts == 2

MaxStops == 2

\* the stream numbers range over streamOptions gives to the workers
Slots == 0..(StreamCount - 1)

\* errors of the processor; streamAPI.Close is an interface method and may
\* return an error
AlreadyStarted == [k |-> "processor was already started", s |-> 0]

NotRunning == [k |-> "processor is not running", s |-> 0]

CloseErr == [k |-> "close", s |-> 0]

\* the cursor of batch b delivered by engine e
ProcCursor(e, b) == [sid |-> BrokerStreamId(e), off |-> b]

\* NewProcessor: the hooks of slot k are closures over the loop variable i
\* of the loop that builds streamOptions.  The module is built with the
\* semantics of go 1.19, where the loop has one variable i; the closures
\* run after the loop has ended and read the value it ended with.
LoopVariableAfterLoop == StreamCount

HookStreamNo(k) == LoopVariableAfterLoop

\* an invocation of ProcessorOptions.NotifyErr or NotifyOK by the engine of
\* slot k
Hook(k, h) == [slot |-> k, no |-> HookStreamNo(k), hook |-> h]

\* the engine model is not part of the processor's specification: the
\* processor talks to its engines through the interface streamAPI
EngineIdle ==
    /\ ctxDone = FALSE
    /\ wpc = "open"
    /\ streams = <<>>
    /\ stream = 0
    /\ cur = ZeroItem
    /\ eventCh = <<>>
    /\ chClosed = FALSE
    /\ reads = 0
    /\ produced = <<>>
    /\ delivered = <<>>
    /\ openNotify = NoNotify
    /\ commitRetry = FALSE
    /\ cpc = "idle"
    /\ commitCur = ZeroCursor
    /\ commitErr = NoErr
    /\ attempts = 0
    /\ commitNotify = NoNotify
    /\ lastReq = NoRequest
    /\ timedOut = FALSE

\* NewProcessor: not started, the context is live, no worker runs
ProcInit ==
    /\ EngineIdle
    /\ BatcherIdle
    /\ HttpIdle
    /\ ReaderIdle
    /\ isStarted = FALSE
    /\ pctxDone = FALSE
    /\ rateLimited \in BOOLEAN
    /\ spc = "idle"
    /\ received = 0
    /\ errCount = 0
    /\ startResult = NoResult
    /\ stopResult = NoResult
    /\ starts = 0
    /\ stops = 0
    /\ ppc = [k \in Slots |-> "off"]
    /\ pstream = [k \in Slots |-> 0]
    /\ pcursor = [k \in Slots |-> ZeroCursor]
    /\ pcloseRes = [k \in Slots |-> NoErr]
    /\ engines = <<>>
    /\ blog = <<>>
    /\ hooks = {}

stopVars == <<spc, received, errCount, stopResult, stops>>

workVars == <<ppc, pstream, pcursor, pcloseRes, engines, blog, hooks>>

\* faulty variant of Start: workers are started whatever isStarted is
StartAlways ==
    /\ spc = "idle"
    /\ starts < MaxStarts
    /\ starts' = starts + 1
    /\ isStarted' = TRUE
    /\ ppc' = [k \in Slots |-> "new"]
    /\ startResult' = NoErr
    /\ UNCHANGED <<pctxDone, rateLimited, stopVars>>
    /\ UNCHANGED <<pstream, pcursor, pcloseRes, engines, blog, hooks>>
    /\ UNCHANGED outsideProcessor

\* Processor.Start, under the mutex (Stop holds it while it runs): fails if
\* the processor is started, otherwise starts one worker per slot
Start ==
    /\ spc = "idle"
    /\ starts < MaxStarts
    /\ starts' = starts + 1
    /\ IF isStarted
       THEN /\ startResult' = AlreadyStarted
            /\ UNCHANGED <<isStarted, ppc>>
       ELSE /\ isStarted' = TRUE
            /\ ppc' = [k \in Slots |-> "new"]
            /\ startResult' = NoErr
    /\ UNCHANGED <<pctxDone, rateLimited, stopVars>>
    /\ UNCHANGED <<pstream, pcursor, pcloseRes, engines, blog, hooks>>
    /\ UNCHANGED outsideProcessor

\* startSingleStream: the worker closes its engine and offers the result on
\* closeErrorCh
CloseAndSend(k) ==
    \E r \in {NoErr, CloseErr} :
       /\ engines' = [engines EXCEPT ![pstream[k]].closed = TRUE]
       /\ pcloseRes' = [pcloseRes EXCEPT ![k] = r]
       /\ ppc' = [ppc EXCEPT ![k] = "send"]

\* startSingleStream begins: newStream returns the engine of the slot
WorkerNewStream(k) ==
    /\ ppc[k] = "new"
    /\ engines' = Append(engines, [slot |-> k, closed |-> FALSE])
    /\ pstream' = [pstream EXCEPT ![k] = Len(engines) + 1]
    /\ ppc' = [ppc EXCEPT ![k] = IF rateLimited THEN "initWait" ELSE "loop"]
    /\ UNCHANGED <<pcursor, pcloseRes, blog, hooks>>
    /\ UNCHANGED <<isStarted, pctxDone, rateLimited, startResult, starts>>
    /\ UNCHANGED stopVars
    /\ UNCHANGED outsideProcessor

\* the selects on p.ctx.Done and a timer: the initial wait and the wait
\* after a batch that was processed faster than timePerBatchPerStream
WorkerWait(k) ==
    /\ ppc[k] \in {"initWait", "pace"}
    /\ \/ /\ pctxDone
          /\ CloseAndSend(k)
       \/ /\ ppc' = [ppc EXCEPT ![k] = "loop"]
          /\ UNCHANGED <<engines, pcloseRes>>
    /\ UNCHANGED <<pstream, pcursor, blog, hooks>>
    /\ UNCHANGED <<isStarted, pctxDone, rateLimited, startResult, starts>>
    /\ UNCHANGED stopVars
    /\ UNCHANGED outsideProcessor

\* the select at the head of the loop, where the worker is at "retry" when
\* a read error sent it there: with p.ctx done the worker closes its engine
\* and ends, otherwise (default) it calls stream.NextEvents
WorkerSelect(k) ==
    /\ ppc[k] \in {"loop", "retry"}
    /\ IF pctxDone
       THEN CloseAndSend(k)
       ELSE /\ ppc' = [ppc EXCEPT ![k] = "next"]
            /\ UNCHANGED <<engines, pcloseRes>>
    /\ UNCHANGED <<pstream, pcursor, blog, hooks>>
    /\ UNCHANGED <<isStarted, pctxDone, rateLimited, startResult, starts>>
    /\ UNCHANGED stopVars
    /\ UNCHANGED outsideProcessor

\* a batch as the history records it
NewBatch(k, e, c) ==
    [slot |-> k, engine |-> e, cursor |-> c, ops |-> <<>>, commits |-> <<>>,
     result |-> "none"]

\* faulty variant of NextEventsReturns: an error recycles the engine
NextEventsReturnsRecycles(k) ==
    /\ ppc[k] = "next"
    /\ \/ /\ Len(blog) < MaxBatches
          /\ LET c == ProcCursor(pstream[k], Len(blog) + 1) IN
             /\ pcursor' = [pcursor EXCEPT ![k] = c]
             /\ blog' = Append(blog, NewBatch(k, pstream[k], c))
          /\ ppc' = [ppc EXCEPT ![k] = "op"]
          /\ UNCHANGED <<pstream, engines>>
       \/ /\ Len(engines) < StreamCount + MaxRecycles
          /\ engines' = Append([engines EXCEPT ![pstream[k]].closed = TRUE],
                               [slot |-> k, closed |-> FALSE])
          /\ pstream' = [pstream EXCEPT ![k] = Len(engines) + 1]
          /\ ppc' = [ppc EXCEPT ![k] = "retry"]
          /\ UNCHANGED <<pcursor, blog>>
    /\ UNCHANGED <<pcloseRes, hooks>>
    /\ UNCHANGED <<isStarted, pctxDone, rateLimited, startResult, starts>>
    /\ UNCHANGED stopVars
    /\ UNCHANGED outsideProcessor

\* stream.NextEvents returns to the worker: a batch, or an error, on which
\* the worker continues with the next round
NextEventsReturns(k) ==
    /\ ppc[k] = "next"
    /\ \/ /\ Len(blog) < MaxBatches
          /\ LET c == ProcCursor(pstream[k], Len(blog) + 1) IN
             /\ pcursor' = [pcursor EXCEPT ![k] = c]
             /\ blog' = Append(blog, NewBatch(k, pstream[k], c))
          /\ ppc' = [ppc EXCEPT ![k] = "op"]
       \/ /\ ppc' = [ppc EXCEPT ![k] = "retry"]
          /\ UNCHANGED <<pcursor, blog>>
    /\ UNCHANGED <<pstream, pcloseRes, engines, hooks>>
    /\ UNCHANGED <<isStarted, pctxDone, rateLimited, startResult, starts>>
    /\ UNCHANGED stopVars
    /\ UNCHANGED outsideProcessor

\* number of operation failures so far
Recycles == Len(engines) - StreamCount

\* faulty variant of WorkerOperation: a failed operation is followed by the
\* commit like a successful one
WorkerOperationCommitsAnyway(k) ==
    /\ ppc[k] = "op"
    /\ LET b == pcursor[k].off
           call == [no |-> k, sid |-> pcursor[k].sid] IN
       \/ /\ blog' = [blog EXCEPT ![b].ops = Append(@, call),
                                  ![b].result = "ok"]
          /\ ppc' = [ppc EXCEPT ![k] = "commit"]
          /\ UNCHANGED <<pstream, engines, hooks>>
       \/ /\ Recycles < MaxRecycles
          /\ blog' = [blog EXCEPT ![b].ops = Append(@, call),
                                  ![b].result = "fail"]
          /\ ppc' = [ppc EXCEPT ![k] = "commit"]
          /\ UNCHANGED <<pstream, engines, hooks>>
    /\ UNCHANGED <<pcursor, pcloseRes>>
    /\ UNCHANGED <<isStarted, pctxDone, rateLimited, startResult, starts>>
    /\ UNCHANGED stopVars
    /\ UNCHANGED outsideProcessor

\* the worker calls the operation with its stream number and the stream id
\* of the cursor.  On success it goes on to commit.  On failure it closes the
\* engine, reports a close error through the hook of its stream options,
\* and puts a fresh engine in the slot.
WorkerOperation(k) ==
    /\ ppc[k] = "op"
    /\ LET b == pcursor[k].off
           call == [no |-> k, sid |-> pcursor[k].sid] IN
       \/ /\ blog' = [blog EXCEPT ![b].ops = Append(@, call),
                                  ![b].result = "ok"]
          /\ ppc' = [ppc EXCEPT ![k] = "commit"]
          /\ UNCHANGED <<pstream, engines, hooks>>
       \/ /\ Recycles < MaxRecycles
          /\ blog' = [blog EXCEPT ![b].ops = Append(@, call),
                                  ![b].result = "fail"]
          /\ \E r \in {NoErr, CloseErr} :
                hooks' = IF r = NoErr THEN {} ELSE {Hook(k, "err")}
          /\ engines' = Append([engines EXCEPT ![pstream[k]].closed = TRUE],
                               [slot |-> k, closed |-> FALSE])
          /\ pstream' = [pstream EXCEPT ![k] = Len(engines) + 1]
          /\ ppc' = [ppc EXCEPT ![k] = "loop"]
    /\ UNCHANGED <<pcursor, pcloseRes>>
    /\ UNCHANGED <<isStarted, pctxDone, rateLimited, startResult, starts>>
    /\ UNCHANGED stopVars
    /\ UNCHANGED outsideProcessor

\* the hooks one CommitCursor call of the engine in slot k invokes: notifyErr
\* if it retried, notifyOK if it succeeded
\* NewProcessor builds the StreamOptions of every engine without CommitRetry,
\* which therefore has its zero value: a failed commit request is not tried
\* again
ProcessorCommitRetry == FALSE

\* the hooks stream.CommitCursor invokes: NotifyErr before every further
\* attempt, NotifyOK after a success
CommitHooks(k, retried, ok) ==
    (IF retried THEN {Hook(k, "err")} ELSE {}) \cup
    (IF ok THEN {Hook(k, "ok")} ELSE {})

\* faulty variant of WorkerCommit: the worker goes on without the commit
WorkerCommitSkipped(k) ==
    /\ ppc[k] = "commit"
    /\ \E fast \in BOOLEAN :
          ppc' = [ppc EXCEPT ![k] = IF rateLimited /\ fast THEN "pace"
                                                          ELSE "loop"]
    /\ UNCHANGED <<pstream, pcursor, pcloseRes, engines, blog, hooks>>
    /\ UNCHANGED <<isStarted, pctxDone, rateLimited, startResult, starts>>
    /\ UNCHANGED stopVars
    /\ UNCHANGED outsideProcessor

\* the worker calls stream.CommitCursor(cursor) and drops its result; then
\* it paces itself if the batch took less than timePerBatchPerStream
WorkerCommit(k) ==
    /\ ppc[k] = "commit"
    /\ LET b == pcursor[k].off IN
       blog' = [blog EXCEPT ![b].commits =
                   Append(@, [engine |-> pstream[k], cursor |-> pcursor[k]])]
    /\ \E retried \in {r \in BOOLEAN : r => ProcessorCommitRetry} :
          \E ok \in BOOLEAN : hooks' = CommitHooks(k, retried, ok)
    /\ \E fast \in BOOLEAN :
          ppc' = [ppc EXCEPT ![k] = IF rateLimited /\ fast THEN "pace"
                                                          ELSE "loop"]
    /\ UNCHANGED <<pstream, pcursor, pcloseRes, engines>>
    /\ UNCHANGED <<isStarted, pctxDone, rateLimited, startResult, starts>>
    /\ UNCHANGED stopVars
    /\ UNCHANGED outsideProcessor

\* the steps of the worker of slot k that are steps of its own code
startSingleStream(k) ==
    \/ WorkerNewStream(k)
    \/ WorkerWait(k)
    \/ WorkerSelect(k)
    \/ WorkerOperation(k)
    \/ WorkerCommit(k)

\* Processor.Stop is called and takes the mutex: it fails if the processor
\* is not started, otherwise it cancels p.ctx and starts to collect
Stop ==
    /\ spc = "idle"
    /\ stops < MaxStops
    /\ stops' = stops + 1
    /\ IF ~isStarted
       THEN /\ stopResult' = NotRunning
            /\ spc' = "return"
            /\ UNCHANGED pctxDone
       ELSE /\ pctxDone' = TRUE
            /\ spc' = "collect"
            /\ UNCHANGED stopResult
    /\ received' = 0
    /\ errCount' = 0
    /\ UNCHANGED <<isStarted, rateLimited, startResult, starts>>
    /\ UNCHANGED workVars
    /\ UNCHANGED outsideProcessor

\* Stop receives one close result: closeErrorCh has no buffer, the worker
\* that sends it returns
StopReceive ==
    /\ spc = "collect"
    /\ received < StreamCount
    /\ \E k \in Slots :
          /\ ppc[k] = "send"
          /\ ppc' = [ppc EXCEPT ![k] = "done"]
          /\ errCount' = IF pcloseRes[k] # NoErr THEN errCount + 1 ELSE errCount
    /\ received' = received + 1
    /\ UNCHANGED <<spc, stopResult, stops>>
    /\ UNCHANGED <<pstream, pcursor, pcloseRes, engines, blog, hooks>>
    /\ UNCHANGED <<isStarted, pctxDone, rateLimited, startResult, starts>>
    /\ UNCHANGED outsideProcessor

\* faulty variant of StopResult: the error does not carry the count
StopResultFirstError(n) == IF n > 0 THEN CloseCountErr(1) ELSE NoErr

\* the result of Stop once it has heard from every worker
StopResult(n) == IF n > 0 THEN CloseCountErr(n) ELSE NoErr

\* Stop has received a result from every worker and builds its own
StopCollected ==
    /\ spc = "collect"
    /\ received = StreamCount
    /\ stopResult' = StopResult(errCount)
    /\ spc' = "return"
    /\ UNCHANGED <<received, errCount, stops>>
    /\ UNCHANGED workVars
    /\ UNCHANGED <<isStarted, pctxDone, rateLimited, startResult, starts>>
    /\ UNCHANGED outsideProcessor

\* Stop returns and releases the mutex
StopReturn ==
    /\ spc = "return"
    /\ spc' = "idle"
    /\ received' = 0
    /\ errCount' = 0
    /\ UNCHANGED <<stopResult, stops>>
    /\ UNCHANGED workVars
    /\ UNCHANGED <<isStarted, pctxDone, rateLimited, startResult, starts>>
    /\ UNCHANGED outsideProcessor

Stopper ==
    \/ Stop
    \/ StopReceive
    \/ StopCollected
    \/ StopReturn

ProcNext ==
    \/ Start
    \/ Stopper
    \/ \E k \in Slots : startSingleStream(k)
    \/ \E k \in Slots : NextEventsReturns(k)

ProcSpec == ProcInit /\ [][ProcNext]_allVars

\* the workers and the caller of Stop are goroutines that take their next
\* step whenever they can; nothing obliges an engine to have a batch
ProcFairSpec ==
    /\ ProcSpec
    /\ \A k \in Slots : WF_allVars(startSingleStream(k))
    /\ WF_allVars(Stopper)

(* ------------------------- the publish batcher ------------------------- *)

\* BatchOptions.MaxBatchSize (default 10) and BatchOptions.BatchQueueSize
\* (default 1000); the model runs the same code with smaller values
MaxBatchSize == 2

BatchQueueSize == 2

\* number of single-event Publish calls and of slice Publish calls made
MaxEvents == 3

MaxSlices == 1

Callers == 1..MaxEvents

SliceCallers == 1..MaxSlices

\* the event of the e-th single-event call is e; the value of the n-th slice
\* call is a slice of two other events
SliceValue(n) == <<100 * n + 1, 100 * n + 2>>

\* the error the publish API returns for its n-th call when it fails
PublishErr(n) == [k |-> "publish", s |-> n]

\* a call of publishAPI.Publish as the history records it
Request(events, by) == [events |-> events, by |-> by, done |-> FALSE, err |-> NoErr]

\* NewBatchPublishAPI: the queue is empty and open, dispatchThread starts
BatchInit ==
    /\ EngineIdle
    /\ ProcIdle
    /\ HttpIdle
    /\ ReaderIdle
    /\ eventsChannel = <<>>
    /\ chanClosed = FALSE
    /\ dpc = "loop"
    /\ batch = <<>>
    /\ deadline = "nil"
    /\ ppcall = [e \in Callers |-> "idle"]
    /\ publishResult = [e \in Callers |-> <<>>]
    /\ returned = [e \in Callers |-> NoResult]
    /\ spcall = [n \in SliceCallers |-> "idle"]
    /\ sreturned = [n \in SliceCallers |-> NoResult]
    /\ clpc = "idle"
    /\ arrived = <<>>
    /\ requests = <<>>

dispatchVars == <<dpc, batch, deadline>>

callerVars == <<ppcall, returned>>

sliceVars == <<spcall, sreturned>>

\* Publish with a single event, up to its send: the proxy is built and
\* p.eventsChannel <- &eventProxy completes when the queue has room (the
\* caller is blocked until then); on a closed channel the send panics.  The
\* callers send in any order.
PublishSend(e) ==
    /\ ppcall[e] = "idle"
    /\ IF chanClosed
       THEN /\ ppcall' = [ppcall EXCEPT ![e] = "panic"]
            /\ UNCHANGED <<eventsChannel, arrived>>
       ELSE /\ Len(eventsChannel) < BatchQueueSize
            /\ eventsChannel' = Append(eventsChannel, e)
            /\ arrived' = Append(arrived, e)
            /\ ppcall' = [ppcall EXCEPT ![e] = "wait"]
    /\ UNCHANGED <<chanClosed, publishResult, returned, clpc, requests>>
    /\ UNCHANGED <<dispatchVars, sliceVars>>
    /\ UNCHANGED outsideBatcher

\* Publish with a single event where slices are published as well: the same
\* send, with the callers numbered in the order in which their sends
\* complete.  The numbers are labels, so every run of the batcher is one of
\* these after renaming its events.
PublishSendInOrder(e) ==
    /\ \A j \in Callers : j < e => ppcall[j] # "idle"
    /\ PublishSend(e)

\* return <-eventProxy.publishResult
PublishReceive(e) ==
    /\ ppcall[e] = "wait"
    /\ publishResult[e] # <<>>
    /\ returned' = [returned EXCEPT ![e] = Head(publishResult[e])]
    /\ publishResult' = [publishResult EXCEPT ![e] = Tail(@)]
    /\ ppcall' = [ppcall EXCEPT ![e] = "returned"]
    /\ UNCHANGED <<eventsChannel, chanClosed, clpc, arrived, requests>>
    /\ UNCHANGED <<dispatchVars, sliceVars>>
    /\ UNCHANGED outsideBatcher

\* faulty variant of PublishSliceCall: the slice is put into a new slice
PublishSliceCallWrapped(n) ==
    /\ spcall[n] = "idle"
    /\ \A j \in SliceCallers : j < n => spcall[j] = "returned"
    /\ requests' = Append(requests, Request(<<0>> \o SliceValue(n), "caller"))
    /\ spcall' = [spcall EXCEPT ![n] = "publishing"]
    /\ UNCHANGED <<eventsChannel, chanClosed, publishResult, clpc, arrived,
                   sreturned>>
    /\ UNCHANGED <<dispatchVars, callerVars>>
    /\ UNCHANGED outsideBatcher

\* Publish is called with a slice: publishAPI.Publish is called with it in
\* the caller's goroutine.  The slice calls are made one after the other.
PublishSliceCall(n) ==
    /\ spcall[n] = "idle"
    /\ \A j \in SliceCallers : j < n => spcall[j] = "returned"
    /\ requests' = Append(requests, Request(SliceValue(n), "caller"))
    /\ spcall' = [spcall EXCEPT ![n] = "publishing"]
    /\ UNCHANGED <<eventsChannel, chanClosed, publishResult, clpc, arrived,
                   sreturned>>
    /\ UNCHANGED <<dispatchVars, callerVars>>
    /\ UNCHANGED outsideBatcher

\* the index of the request of the slice call in progress
SliceRequest ==
    CHOOSE i \in 1..Len(requests) :
       requests[i].by = "caller" /\ ~requests[i].done

\* the publish API returns to the slice call, which returns its result
PublishSliceReturn(n) ==
    /\ spcall[n] = "publishing"
    /\ LET i == SliceRequest IN
       \E err \in {NoErr, PublishErr(i)} :
          /\ requests' = [requests EXCEPT ![i].done = TRUE, ![i].err = err]
          /\ sreturned' = [sreturned EXCEPT ![n] = err]
    /\ spcall' = [spcall EXCEPT ![n] = "returned"]
    /\ UNCHANGED <<eventsChannel, chanClosed, publishResult, clpc, arrived>>
    /\ UNCHANGED <<dispatchVars, callerVars>>
    /\ UNCHANGED outsideBatcher

\* Close: close(p.eventsChannel)
BatcherClose ==
    /\ clpc = "idle"
    /\ chanClosed' = TRUE
    /\ clpc' = "wait"
    /\ UNCHANGED <<eventsChannel, publishResult, arrived, requests>>
    /\ UNCHANGED <<dispatchVars, callerVars, sliceVars>>
    /\ UNCHANGED outsideBatcher

\* faulty variant of BatcherCloseWait: Close does not wait for the dispatcher
BatcherCloseNoWait ==
    /\ clpc = "wait"
    /\ clpc' = "returned"
    /\ UNCHANGED <<eventsChannel, chanClosed, publishResult, arrived, requests>>
    /\ UNCHANGED <<dispatchVars, callerVars, sliceVars>>
    /\ UNCHANGED outsideBatcher

\* Close: <-p.dispatchFinished meets the deferred send of dispatchThread,
\* which has no buffer; Close returns and dispatchThread is gone
BatcherCloseWait ==
    /\ clpc = "wait"
    /\ dpc = "exit"
    /\ dpc' = "done"
    /\ clpc' = "returned"
    /\ UNCHANGED <<eventsChannel, chanClosed, publishResult, arrived, requests>>
    /\ UNCHANGED <<batch, deadline, callerVars, sliceVars>>
    /\ UNCHANGED outsideBatcher

\* time passes the deadline of the batch being collected
DeadlinePasses ==
    /\ deadline = "set"
    /\ deadline' = "passed"
    /\ UNCHANGED <<eventsChannel, chanClosed, publishResult, clpc, arrived,
                   requests>>
    /\ UNCHANGED <<dpc, batch, callerVars, sliceVars>>
    /\ UNCHANGED outsideBatcher

\* faulty variant of Flush: the publish call is started in a goroutine of
\* its own and the dispatcher goes on at once
FlushAsync ==
    IF Len(batch) > 0
    THEN /\ requests' = Append(requests, Request(batch, "dispatch"))
         /\ batch' = <<>>
         /\ deadline' = "nil"
         /\ dpc' = "loop"
    ELSE /\ deadline' = "nil"
         /\ dpc' = "loop"
         /\ UNCHANGED <<batch, requests>>

\* flush, first half: a batch with events is handed to publishBatchToNakadi,
\* which calls publishAPI.Publish; an empty batch only clears the deadline
Flush ==
    IF Len(batch) > 0
    THEN /\ requests' = Append(requests, Request(batch, "dispatch"))
         /\ dpc' = "publishing"
         /\ UNCHANGED <<batch, deadline>>
    ELSE /\ deadline' = "nil"
         /\ dpc' = "loop"
         /\ UNCHANGED <<batch, requests>>

\* dispatchThread with no deadline: it blocks for the next event, which
\* starts a batch and sets the deadline; a closed and empty queue ends it
DispatchReceiveFirst ==
    /\ dpc = "loop"
    /\ deadline = "nil"
    /\ \/ /\ eventsChannel # <<>>
          /\ batch' = Append(batch, Head(eventsChannel))
          /\ eventsChannel' = Tail(eventsChannel)
          /\ deadline' = "set"
          /\ UNCHANGED dpc
       \/ /\ eventsChannel = <<>>
          /\ chanClosed
          /\ dpc' = "exit"
          /\ UNCHANGED <<eventsChannel, batch, deadline>>
    /\ UNCHANGED <<chanClosed, publishResult, clpc, arrived, requests>>
    /\ UNCHANGED <<callerVars, sliceVars>>
    /\ UNCHANGED outsideBatcher

\* faulty variant of DispatchCheck: only the deadline ends the collection
DispatchCheckNoSizeBound ==
    /\ dpc = "loop"
    /\ deadline # "nil"
    /\ IF deadline = "passed"
       THEN Flush
       ELSE /\ dpc' = "select"
            /\ UNCHANGED <<batch, deadline, requests>>
    /\ UNCHANGED <<eventsChannel, chanClosed, publishResult, clpc, arrived>>
    /\ UNCHANGED <<callerVars, sliceVars>>
    /\ UNCHANGED outsideBatcher

\* dispatchThread with a deadline: a full batch or a passed deadline is
\* flushed, otherwise the select is entered
DispatchCheck ==
    /\ dpc = "loop"
    /\ deadline # "nil"
    /\ IF Len(batch) >= MaxBatchSize \/ deadline = "passed"
       THEN Flush
       ELSE /\ dpc' = "select"
            /\ UNCHANGED <<batch, deadline, requests>>
    /\ UNCHANGED <<eventsChannel, chanClosed, publishResult, clpc, arrived>>
    /\ UNCHANGED <<callerVars, sliceVars>>
    /\ UNCHANGED outsideBatcher

\* faulty variant of DispatchSelect: a further event is put in front
DispatchSelectPrepends ==
    /\ dpc = "select"
    /\ \/ /\ deadline = "passed"
          /\ Flush
          /\ UNCHANGED eventsChannel
       \/ /\ eventsChannel # <<>>
          /\ batch' = <<Head(eventsChannel)>> \o batch
          /\ eventsChannel' = Tail(eventsChannel)
          /\ dpc' = "loop"
          /\ UNCHANGED <<deadline, requests>>
       \/ /\ eventsChannel = <<>>
          /\ chanClosed
          /\ Flush
          /\ UNCHANGED eventsChannel
    /\ UNCHANGED <<chanClosed, publishResult, clpc, arrived>>
    /\ UNCHANGED <<callerVars, sliceVars>>
    /\ UNCHANGED outsideBatcher

\* faulty variant of DispatchSelect: the select has no timer case
DispatchSelectNoTimer ==
    /\ dpc = "select"
    /\ \/ /\ eventsChannel # <<>>
          /\ batch' = Append(batch, Head(eventsChannel))
          /\ eventsChannel' = Tail(eventsChannel)
          /\ dpc' = "loop"
          /\ UNCHANGED <<deadline, requests>>
       \/ /\ eventsChannel = <<>>
          /\ chanClosed
          /\ Flush
          /\ UNCHANGED eventsChannel
    /\ UNCHANGED <<chanClosed, publishResult, clpc, arrived>>
    /\ UNCHANGED <<callerVars, sliceVars>>
    /\ UNCHANGED outsideBatcher

\* the select of dispatchThread: the timer fires at the deadline and the
\* batch is flushed, or an event arrives and is appended, or the queue is
\* closed and empty and the batch is flushed
DispatchSelect ==
    /\ dpc = "select"
    /\ \/ /\ deadline = "passed"
          /\ Flush
          /\ UNCHANGED eventsChannel
       \/ /\ eventsChannel # <<>>
          /\ batch' = Append(batch, Head(eventsChannel))
          /\ eventsChannel' = Tail(eventsChannel)
          /\ dpc' = "loop"
          /\ UNCHANGED <<deadline, requests>>
       \/ /\ eventsChannel = <<>>
          /\ chanClosed
          /\ Flush
          /\ UNCHANGED eventsChannel
    /\ UNCHANGED <<chanClosed, publishResult, clpc, arrived>>
    /\ UNCHANGED <<callerVars, sliceVars>>
    /\ UNCHANGED outsideBatcher

\* the index of the publish call of the dispatcher that is in flight
DispatchRequest ==
    CHOOSE i \in 1..Len(requests) :
       requests[i].by = "dispatch" /\ ~requests[i].done

\* faulty variant of publishBatchToNakadi: flush keeps the published batch
publishBatchToNakadiKeepsBatch ==
    /\ dpc = "publishing"
    /\ LET i == DispatchRequest IN
       \E err \in {NoErr, PublishErr(i)} :
          /\ requests' = [requests EXCEPT ![i].done = TRUE, ![i].err = err]
          /\ publishResult' =
                [e \in Callers |->
                    IF \E j \in 1..Len(batch) : batch[j] = e
                    THEN Append(publishResult[e], err)
                    ELSE publishResult[e]]
    /\ deadline' = "nil"
    /\ dpc' = "loop"
    /\ UNCHANGED <<eventsChannel, chanClosed, clpc, arrived, batch>>
    /\ UNCHANGED <<callerVars, sliceVars>>
    /\ UNCHANGED outsideBatcher

\* faulty variant of publishBatchToNakadi: only the first caller of the
\* batch gets the error, the others get nil
publishBatchToNakadiFirstOnly ==
    /\ dpc = "publishing"
    /\ LET i == DispatchRequest IN
       \E err \in {NoErr, PublishErr(i)} :
          /\ requests' = [requests EXCEPT ![i].done = TRUE, ![i].err = err]
          /\ publishResult' =
                [e \in Callers |->
                    IF e = batch[1] THEN Append(publishResult[e], err)
                    ELSE IF \E j \in 2..Len(batch) : batch[j] = e
                         THEN Append(publishResult[e], NoErr)
                         ELSE publishResult[e]]
    /\ batch' = <<>>
    /\ deadline' = "nil"
    /\ dpc' = "loop"
    /\ UNCHANGED <<eventsChannel, chanClosed, clpc, arrived>>
    /\ UNCHANGED <<callerVars, sliceVars>>
    /\ UNCHANGED outsideBatcher

\* publishBatchToNakadi, second half, and the rest of flush: the publish API
\* returns, its result is sent to the result channel of every event of the
\* batch, the batch is replaced by an empty one and the deadline is cleared
publishBatchToNakadi ==
    /\ dpc = "publishing"
    /\ LET i == DispatchRequest IN
       \E err \in {NoErr, PublishErr(i)} :
          /\ requests' = [requests EXCEPT ![i].done = TRUE, ![i].err = err]
          /\ publishResult' =
                [e \in Callers |->
                    IF \E j \in 1..Len(batch) : batch[j] = e
                    THEN Append(publishResult[e], err)
                    ELSE publishResult[e]]
    /\ batch' = <<>>
    /\ deadline' = "nil"
    /\ dpc' = "loop"
    /\ UNCHANGED <<eventsChannel, chanClosed, clpc, arrived>>
    /\ UNCHANGED <<callerVars, sliceVars>>
    /\ UNCHANGED outsideBatcher

dispatchThread ==
    \/ DispatchReceiveFirst
    \/ DispatchCheck
    \/ DispatchSelect
    \/ publishBatchToNakadi

BatchNext ==
    \/ \E e \in Callers : PublishSendInOrder(e)
    \/ \E e \in Callers : PublishReceive(e)
    \/ \E n \in SliceCallers : PublishSliceCall(n)
    \/ \E n \in SliceCallers : PublishSliceReturn(n)
    \/ BatcherClose
    \/ BatcherCloseWait
    \/ DeadlinePasses
    \/ dispatchThread

BatchSpec == BatchInit /\ [][BatchNext]_allVars

\* the batcher with single events only
BatchEventNext ==
    \/ \E e \in Callers : PublishSend(e)
    \/ \E e \in Callers : PublishReceive(e)
    \/ BatcherClose
    \/ BatcherCloseWait
    \/ DeadlinePasses
    \/ dispatchThread

BatchEventSpec == BatchInit /\ [][BatchEventNext]_allVars

\* the batcher with single events only, the callers numbered in the order
\* in which their sends complete
BatchFairNext ==
    \/ \E e \in Callers : PublishSendInOrder(e)
    \/ \E e \in Callers : PublishReceive(e)
    \/ BatcherClose
    \/ BatcherCloseWait
    \/ DeadlinePasses
    \/ dispatchThread

\* dispatchThread is a goroutine that takes its next step whenever it can,
\* which includes that the publish API returns; time goes on; a caller whose
\* result is there receives it.  Nothing obliges a caller to submit an event.
BatchFairSpec ==
    /\ BatchInit
    /\ [][BatchFairNext]_allVars
    /\ WF_allVars(dispatchThread)
    /\ WF_allVars(DeadlinePasses)
    /\ WF_allVars(\E e \in Callers : PublishReceive(e))

(* ----------------------- the HTTP request core ------------------------- *)

\* the number of further attempts the backoff policy of a call grants
MaxRetries == 2

Methods == {"GET", "PUT", "POST", "DELETE"}

\* the status codes of the responses the broker gives
Statuses == {200, 204, 207, 404, 422, 503}

\* the caller-supplied error context msg and the text of an underlying error
Msg == "msg"

Cause == "cause"

\* the error of json.Marshal or of compress, returned before backoff.Retry
EncodeErr == [k |-> "encode", s |-> 0]

\* the error of http.NewRequest, wrapped by backoff.Permanent
PrepareErr == [k |-> "prepare", s |-> 0]

\* the error of the token provider, wrapped by backoff.Permanent
TokenErr == [k |-> "token", s |-> 0]

\* the error of httpClient.Do
TransportErr == [k |-> "transport", s |-> 0]

\* the problem decoded from a response with the given status
StatusErr(code) == [k |-> "status", s |-> code]

\* the body of a response of 500 or above could not be read
RetryBodyReadErr == [k |-> "retryBodyRead", s |-> 0]

\* the body of the final response could not be read
BodyReadErr == [k |-> "bodyRead", s |-> 0]

\* the body of the final response of a GET could not be decoded
BodyDecodeErr == [k |-> "bodyDecode", s |-> 0]

\* the text of an error as the helpers build it with errors.Wrap,
\* errors.Wrapf and decodeResponseToError, outermost part first
ErrorText(method, err) ==
    CASE err.k = "encode" -> <<Msg, "unable to encode json body", Cause>>
      [] err.k \in {"prepare", "token"} ->
            <<Msg, "unable to prepare request", Cause>>
      [] err.k = "transport" -> <<Msg, Cause>>
      [] err.k = "status" -> <<Msg, "detail">>
      [] err.k = "retryBodyRead" ->
            <<Msg, "unable to read response body", Cause>>
      [] err.k = "bodyRead" ->
            IF method = "DELETE"
            THEN <<Msg, "unable to read response body", Cause>>
            ELSE <<"unable to read response body", Cause>>
      [] err.k = "bodyDecode" -> <<"unable to decode response body", Cause>>
      [] OTHER -> <<>>

\* faulty variant of create: Retry is ignored
createAlwaysExponential(retry) == 0..MaxRetries

\* backOffConfiguration.create: without Retry the policy is the stop
\* backoff, which grants no further attempt; with Retry it is an exponential
\* backoff, which grants attempts until its MaxElapsedTime is over
create(retry) == IF retry THEN 0..MaxRetries ELSE {0}

\* a call of httpGET, httpPUT, httpPOST (or httpPOSTWithCompression) or
\* httpDELETE of a client with or without token provider and with a backoff
\* policy made by create; httpPUT and httpPOST begin with the encoding of
\* the body, httpGET and httpDELETE with backoff.Retry
HttpInit ==
    /\ EngineIdle
    /\ ProcIdle
    /\ BatcherIdle
    /\ ReaderIdle
    /\ hmethod \in Methods
    /\ hprovider \in BOOLEAN
    /\ hretry \in BOOLEAN
    /\ hurl \in {"valid", "invalid"}
    /\ hleft \in create(hretry)
    /\ hpc = IF hmethod \in {"PUT", "POST"} THEN "encode" ELSE "attempt"
    /\ hreader = "all"
    /\ hstatus = 0
    /\ hattempts = 0
    /\ hsent = 0
    /\ hfailures = 0
    /\ hbodies = <<>>
    /\ htokenFailedAt = 0
    /\ hresult = NoResult
    /\ pbody = "none"
    /\ presult = "none"

httpConf == <<hmethod, hprovider, hretry, hurl>>

publishVars == <<pbody, presult>>

\* httpPUT, httpPOST and httpPOSTWithCompression encode the body with
\* json.Marshal, the last also with compress: an error is returned at once,
\* before backoff.Retry is called, otherwise the call goes on to backoff.Retry
HttpEncode ==
    /\ hpc = "encode"
    /\ \/ /\ hpc' = "attempt"
          /\ UNCHANGED hresult
       \/ /\ hresult' = EncodeErr
          /\ hpc' = "done"
    /\ UNCHANGED <<hleft, hreader, hstatus, hattempts, hsent, hfailures,
                   hbodies, htokenFailedAt>>
    /\ UNCHANGED <<httpConf, publishVars>>
    /\ UNCHANGED outsideHttp

\* backoff.Retry calls the operation, which builds the request with
\* http.NewRequest; its error is returned wrapped by backoff.Permanent
HttpAttempt ==
    /\ hpc = "attempt"
    /\ hattempts' = hattempts + 1
    /\ IF hurl = "invalid"
       THEN /\ hresult' = PrepareErr
            /\ hpc' = "done"
       ELSE /\ hpc' = IF hprovider THEN "token" ELSE "do"
            /\ UNCHANGED hresult
    /\ UNCHANGED <<hleft, hreader, hstatus, hsent, hfailures, hbodies,
                   htokenFailedAt>>
    /\ UNCHANGED <<httpConf, publishVars>>
    /\ UNCHANGED outsideHttp

\* faulty variant of HttpToken: the error of the token provider is returned
\* as it is
HttpTokenNotPermanent ==
    /\ hpc = "token"
    /\ \/ /\ hpc' = "do"
          /\ UNCHANGED <<htokenFailedAt, hresult>>
       \/ /\ htokenFailedAt' = hattempts
          /\ hresult' = TokenErr
          /\ hpc' = "backoff"
    /\ UNCHANGED <<hleft, hreader, hstatus, hattempts, hsent, hfailures,
                   hbodies>>
    /\ UNCHANGED <<httpConf, publishVars>>
    /\ UNCHANGED outsideHttp

\* the operation calls the token provider: with a token it sets the header
\* and goes on; an error is returned wrapped by backoff.Permanent, on which
\* backoff.Retry returns the error without asking the policy
HttpToken ==
    /\ hpc = "token"
    /\ \/ /\ hpc' = "do"
          /\ UNCHANGED <<htokenFailedAt, hresult>>
       \/ /\ htokenFailedAt' = hattempts
          /\ hresult' = TokenErr
          /\ hpc' = "done"
    /\ UNCHANGED <<hleft, hreader, hstatus, hattempts, hsent, hfailures,
                   hbodies>>
    /\ UNCHANGED <<httpConf, publishVars>>
    /\ UNCHANGED outsideHttp

\* the body of the request of an attempt: httpGET and httpDELETE send none;
\* httpPUT makes a reader of the encoded body in every attempt; httpPOSTHelper
\* gives every attempt the one reader it was called with, and the request has
\* what is left in it
RequestBody(method, reader) ==
    IF method = "PUT" THEN "encoded"
    ELSE IF method = "POST"
         THEN (IF reader = "all" THEN "encoded" ELSE "empty")
         ELSE "nobody"

\* what the call returns for a response below 500, after backoff.Retry
\* returned nil: httpGET requires 200 and decodes the body, httpDELETE
\* requires 200 or 204, and both decode the problem of any other response;
\* httpPUT and httpPOST return the response to their caller
HttpResult(method, code, readable, decodable) ==
    IF method = "GET"
    THEN (IF code # 200
          THEN (IF readable THEN StatusErr(code) ELSE BodyReadErr)
          ELSE (IF decodable THEN NoErr ELSE BodyDecodeErr))
    ELSE IF method = "DELETE" /\ code \notin {200, 204}
         THEN (IF readable THEN StatusErr(code) ELSE BodyReadErr)
         ELSE NoErr

\* faulty variant of HttpDo: a response of 500 or above ends the call
HttpDoNoRetryOn5xx ==
    /\ hpc = "do"
    /\ hsent' = hsent + 1
    /\ hbodies' = Append(hbodies, RequestBody(hmethod, hreader))
    /\ \/ /\ hresult' = TransportErr
          /\ hfailures' = hfailures + 1
          /\ hpc' = "backoff"
          /\ hreader' \in {hreader, IF hmethod = "POST" THEN "none" ELSE hreader}
          /\ UNCHANGED hstatus
       \/ \E code \in Statuses, readable, decodable \in BOOLEAN :
             /\ hstatus' = code
             /\ hreader' = IF hmethod = "POST" THEN "none" ELSE hreader
             /\ IF code >= 500
                THEN /\ hresult' = StatusErr(code)
                     /\ hpc' = "done"
                     /\ UNCHANGED hfailures
                ELSE /\ hresult' = HttpResult(hmethod, code, readable, decodable)
                     /\ hpc' = "done"
                     /\ UNCHANGED hfailures
    /\ UNCHANGED <<hleft, hattempts, htokenFailedAt>>
    /\ UNCHANGED <<httpConf, publishVars>>
    /\ UNCHANGED outsideHttp

\* the operation sends the request with httpClient.Do, which reads the body
\* from the request's reader: a failure and a response of 500 or above are
\* errors the policy decides on, any other response ends backoff.Retry
HttpDo ==
    /\ hpc = "do"
    /\ hsent' = hsent + 1
    /\ hbodies' = Append(hbodies, RequestBody(hmethod, hreader))
    /\ \/ /\ hresult' = TransportErr
          /\ hfailures' = hfailures + 1
          /\ hpc' = "backoff"
          /\ hreader' \in {hreader, IF hmethod = "POST" THEN "none" ELSE hreader}
          /\ UNCHANGED hstatus
       \/ \E code \in Statuses, readable, decodable \in BOOLEAN :
             /\ hstatus' = code
             /\ hreader' = IF hmethod = "POST" THEN "none" ELSE hreader
             /\ IF code >= 500
                THEN /\ hresult' = IF readable THEN StatusErr(code)
                                               ELSE RetryBodyReadErr
                     /\ hfailures' = hfailures + 1
                     /\ hpc' = "backoff"
                ELSE /\ hresult' = HttpResult(hmethod, code, readable, decodable)
                     /\ hpc' = "done"
                     /\ UNCHANGED hfailures
    /\ UNCHANGED <<hleft, hattempts, htokenFailedAt>>
    /\ UNCHANGED <<httpConf, publishVars>>
    /\ UNCHANGED outsideHttp

\* backoff.Retry asks the policy: NextBackOff gives a duration and the
\* operation is called again, or Stop and the last error is returned
HttpBackoff ==
    /\ hpc = "backoff"
    /\ IF hleft > 0
       THEN /\ hleft' = hleft - 1
            /\ hpc' = "attempt"
       ELSE /\ hpc' = "done"
            /\ UNCHANGED hleft
    /\ UNCHANGED <<hreader, hstatus, hattempts, hsent, hfailures, hbodies,
                   htokenFailedAt, hresult>>
    /\ UNCHANGED <<httpConf, publishVars>>
    /\ UNCHANGED outsideHttp

\* the per-event records a response body can hold
Items == {<<>>, <<"submitted">>, <<"failed">>, <<"submitted", "failed">>,
          <<"failed", "aborted">>}

\* the response bodies: a JSON array of per-event records, a JSON problem
\* object, text that is not JSON, a body whose read fails
ResponseBodies ==
    [json : {"items"}, items : Items] \cup
    [json : {"problem", "garbage", "unreadable"}, items : {<<>>}]

\* the results of PublishAPI.Publish
PublishOK == [k |-> "nil", items |-> <<>>]

BatchItemsError(items) == [k |-> "batchItems", items |-> items]

PublishFailed(kind) == [k |-> kind, items |-> <<>>]

\* faulty variant of PublishResult: every 2xx status is a success
PublishResultAny2xx(code, body) ==
    IF code \in {207, 422}
    THEN (IF body.json = "items" THEN BatchItemsError(body.items)
          ELSE PublishFailed("bodyDecode"))
    ELSE IF code < 200 \/ code >= 300
         THEN (IF body.json = "unreadable" THEN PublishFailed("bodyRead")
               ELSE PublishFailed("status"))
         ELSE PublishOK

\* PublishAPI.Publish on the response httpPOST returned: 207 and 422 give
\* the decoded BatchItemsError, any other status than 200 the problem decoded
\* from the body, 200 gives nil
PublishResult(code, body) ==
    IF code \in {207, 422}
    THEN (IF body.json = "items" THEN BatchItemsError(body.items)
          ELSE PublishFailed("bodyDecode"))
    ELSE IF code # 200
         THEN (IF body.json = "unreadable" THEN PublishFailed("bodyRead")
               ELSE PublishFailed("status"))
         ELSE PublishOK

\* PublishAPI.Publish after its httpPOST has returned: an error is returned
\* as it is, a response is handled by its status
PublishReturn ==
    /\ hpc = "done"
    /\ hmethod = "POST"
    /\ hpc' = "published"
    /\ IF hresult # NoErr
       THEN /\ presult' = PublishFailed(hresult.k)
            /\ UNCHANGED pbody
       ELSE \E body \in ResponseBodies :
               /\ pbody' = body
               /\ presult' = PublishResult(hstatus, body)
    /\ UNCHANGED <<hleft, hreader, hstatus, hattempts, hsent, hfailures,
                   hbodies, htokenFailedAt, hresult>>
    /\ UNCHANGED httpConf
    /\ UNCHANGED outsideHttp

HttpNext ==
    \/ HttpEncode
    \/ HttpAttempt
    \/ HttpToken
    \/ HttpDo
    \/ HttpBackoff
    \/ PublishReturn

HttpSpec == HttpInit /\ [][HttpNext]_allVars

(* ----------------------------- the reader ----------------------------- *)

\* the number of nextEvents and of closeStream calls made on the reader
MaxNextEvents == 3

MaxCloseStream == 2

\* the number of complete lines one read of the body delivers
MaxChunk == 2

\* openStream: the reader has its buffer and the open response body
ReaderInit ==
    /\ EngineIdle
    /\ ProcIdle
    /\ BatcherIdle
    /\ HttpIdle
    /\ rbuffer = TRUE
    /\ rlines = 0
    /\ rbody = "open"
    /\ rpc = "idle"
    /\ rtimer = "off"
    /\ rlast = "none"
    /\ rreads = 0
    /\ rcalls = 0
    /\ rcloses = 0

\* nextEvents is called: without buffer it returns "stream is closed";
\* otherwise readLineTimeout starts the timer and calls ReadSlice
ReaderNextEvents ==
    /\ rpc = "idle"
    /\ rcalls < MaxNextEvents
    /\ rcalls' = rcalls + 1
    /\ IF ~rbuffer
       THEN /\ rlast' = "stream is closed"
            /\ UNCHANGED <<rpc, rtimer, rreads>>
       ELSE /\ rtimer' = "armed"
            /\ rreads' = rreads + 1
            /\ rpc' = "reading"
            /\ UNCHANGED rlast
    /\ UNCHANGED <<rbuffer, rlines, rbody, rcloses>>
    /\ UNCHANGED outsideReader

\* ReadSlice returns a line, which is a batch or is not the JSON of a batch.
\* A complete line held in the buffer is returned without a read of the
\* body, open or closed; with none in the buffer the open body is read, and
\* the chunk it delivers holds the line returned and the lines that stay in
\* the buffer.
ReaderLine ==
    /\ rpc = "reading"
    /\ IF rlines > 0
       THEN rlines' = rlines - 1
       ELSE /\ rbody = "open"
            /\ \E chunk \in 1..MaxChunk : rlines' = chunk - 1
    /\ rpc' \in {"line", "malformed"}
    /\ UNCHANGED <<rbuffer, rbody, rtimer, rlast, rreads, rcalls, rcloses>>
    /\ UNCHANGED outsideReader

\* ReadSlice fails: no complete line is in the buffer and the read of the
\* body fails, because the body was closed or because the connection broke
ReaderReadFails ==
    /\ rpc = "reading"
    /\ rlines = 0
    /\ rpc' = "failed"
    /\ UNCHANGED <<rbuffer, rlines, rbody, rtimer, rlast, rreads, rcalls,
                   rcloses>>
    /\ UNCHANGED outsideReader

\* the timer of readLineTimeout fires after readTimeout and its function
\* closes the response body
ReaderDeadline ==
    /\ rtimer = "armed"
    /\ rtimer' = "fired"
    /\ rbody' = "closed"
    /\ UNCHANGED <<rbuffer, rlines, rpc, rlast, rreads, rcalls, rcloses>>
    /\ UNCHANGED outsideReader

\* the deferred timer.Stop of readLineTimeout, which stops a timer that has
\* not fired, then the decoding of the line and the return of nextEvents
ReaderReturn ==
    /\ rpc \in {"line", "malformed", "failed"}
    /\ rtimer' = IF rtimer = "armed" THEN "stopped" ELSE rtimer
    /\ rlast' = CASE rpc = "line" -> "batch"
                  [] rpc = "malformed" -> "failed to unmarshal next batch"
                  [] OTHER -> "failed to read next batch"
    /\ rpc' = "idle"
    /\ UNCHANGED <<rbuffer, rlines, rbody, rreads, rcalls, rcloses>>
    /\ UNCHANGED outsideReader

\* faulty variant of ReaderCloseStream: the buffer is kept
ReaderCloseStreamKeepsBuffer ==
    /\ rpc = "idle"
    /\ rcloses < MaxCloseStream
    /\ rcloses' = rcloses + 1
    /\ rbody' = "closed"
    /\ UNCHANGED <<rbuffer, rlines, rpc, rtimer, rlast, rreads, rcalls>>
    /\ UNCHANGED outsideReader

\* closeStream: the buffer is set to nil, which drops the lines it holds,
\* and the response body is closed
ReaderCloseStream ==
    /\ rpc = "idle"
    /\ rcloses < MaxCloseStream
    /\ rcloses' = rcloses + 1
    /\ rbuffer' = FALSE
    /\ rlines' = 0
    /\ rbody' = "closed"
    /\ UNCHANGED <<rpc, rtimer, rlast, rreads, rcalls>>
    /\ UNCHANGED outsideReader

ReaderNext ==
    \/ ReaderNextEvents
    \/ ReaderLine
    \/ ReaderReadFails
    \/ ReaderDeadline
    \/ ReaderReturn
    \/ ReaderCloseStream

ReaderSpec == ReaderInit /\ [][ReaderNext]_allVars

(* ------------------------------ claims --------------------------------- *)

IsBatch(it) == it.err = NoErr /\ Len(it.events) > 0

\* the result of a read that found a line without events
IsKeepAlive(it) == it.err = NoErr /\ Len(it.events) = 0 /\ it.cursor # ZeroCursor

ReadErrItem(n) == [cursor |-> ZeroCursor, events |-> <<>>, err |-> ReadErr(n)]

DeliveredItems == [i \in 1..Len(delivered) |-> delivered[i].item]

\* the result the worker holds between its read and its send
InFlight == IF wpc = "send" THEN <<cur>> ELSE <<>>

\* C1: no NextEvents call returns a nil error together with the cursor and
\* the absent events of a keep-alive line.
C1_KeepAliveNeverDelivered ==
    \A i \in 1..Len(delivered) : ~IsKeepAlive(delivered[i].item)

\* the worker has just skipped a keep-alive and the consumer has received a
\* batch
C1_Witness ==
    /\ wpc = "read"
    /\ IsKeepAlive(cur)
    /\ \E i \in 1..Len(delivered) : IsBatch(delivered[i].item)

\* C2: while the engine is not closed, what the NextEvents calls returned,
\* followed by what waits on the channel and by the result the worker is
\* about to send, is exactly the sequence of results other than keep-alives
\* the worker obtained from its readers: same order, nothing twice, nothing
\* left out.
C2_DeliveredInReaderOrder ==
    ~ctxDone => DeliveredItems \o eventCh \o InFlight = produced

\* two calls returned, a reader error and a batch of the next stream
C2_Witness ==
    /\ ~ctxDone
    /\ Len(delivered) >= 2
    /\ \E i, j \in 1..Len(delivered) :
          /\ i < j
          /\ delivered[i].item.err.k = "read"
          /\ IsBatch(delivered[j].item)

\* C3 as stated: after Close every NextEvents call returns context.Canceled,
\* except that one pending batch may be delivered once, and no call ever
\* returns the zero value (nil error, empty cursor, no events).
C3_AfterCloseCanceled ==
    /\ \A i \in 1..Len(delivered) :
          delivered[i].afterClose =>
             \/ delivered[i].item.err = Canceled
             \/ IsBatch(delivered[i].item)
    /\ Cardinality({i \in 1..Len(delivered) :
          delivered[i].afterClose /\ delivered[i].item.err # Canceled}) <= 1
    /\ \A i \in 1..Len(delivered) : delivered[i].item # ZeroItem

\* C4 as stated: once Close was called the worker puts nothing on the
\* channel, and the calls made after Close receive at most one item from it.
C4_NoEnqueueAfterClose ==
    /\ [][ctxDone => Len(eventCh') <= Len(eventCh)]_vars
    /\ [](Cardinality({i \in 1..Len(delivered) :
             delivered[i].afterClose /\ delivered[i].via = "chan"}) <= 1)

\* C5 as stated: after Close the worker eventually closes its reader and
\* terminates.
C5_WorkerTerminatesAfterClose ==
    ctxDone ~> (wpc = "done" /\ \A i \in 1..Len(streams) : streams[i].closed)

\* C6: while the engine is not closed a failed open is followed by the
\* backoff and the backoff by the next open; a reader failure that was sent
\* on is followed by the close of that reader and the next open; a failed
\* open eventually leads to the next open; and, also when opens failed
\* first, the first result the consumer gets before Close is the first result
\* of the first stream that did open.
C6_AutoReopen ==
    /\ [][/\ (~ctxDone /\ wpc = "openErr" /\ wpc' # wpc) => wpc' = "backoff"
          /\ (wpc = "backoff" /\ wpc' # wpc) => wpc' = "open"
          /\ (~ctxDone /\ wpc = "send" /\ cur.err.k = "read" /\ wpc' # wpc) =>
                /\ wpc' = "open"
                /\ stream' = 0
                /\ streams'[stream].closed]_vars
    /\ (wpc = "openErr") ~> (wpc = "open")
    /\ []((Len(delivered) > 0 /\ ~delivered[1].afterClose)
          => (/\ Len(produced) > 0
              /\ delivered[1].item = produced[1]
              /\ IsBatch(delivered[1].item) =>
                    delivered[1].item.events[1] = [conn |-> 1, pos |-> 1]))

\* the first open failed, the second succeeded, and the first NextEvents
\* returned the first batch of that stream; later a reader failed and the
\* worker is about to open the next stream
C6_Witness ==
    /\ ~ctxDone
    /\ openNotify = [err |-> 1, ok |-> 1]
    /\ Len(delivered) > 0
    /\ IsBatch(delivered[1].item)
    /\ wpc = "open"
    /\ Len(streams) = 1
    /\ streams[1].closed

\* C7: the error of a failed reader is returned by at most one NextEvents
\* call, after every batch of that reader, and whenever a batch of a later
\* stream is returned the error was returned before it.
C7_ReaderErrorDeliveredOnce ==
    \A n \in 1..Len(streams) :
       LET occ == {j \in 1..Len(delivered) : delivered[j].item = ReadErrItem(n)} IN
       /\ Cardinality(occ) <= 1
       /\ \A i \in 1..Len(delivered) :
             IsBatch(delivered[i].item) =>
                /\ delivered[i].item.events[1].conn > n => \E j \in occ : j < i
                /\ delivered[i].item.events[1].conn = n => \A j \in occ : i < j

\* a batch of the first stream, its error, and a batch of the second stream
\* were returned in this order
C7_Witness ==
    /\ Len(delivered) = 3
    /\ IsBatch(delivered[1].item)
    /\ delivered[2].item = ReadErrItem(1)
    /\ IsBatch(delivered[3].item)
    /\ delivered[3].item.events[1].conn = 2

\* C8 as stated: every failed open or commit attempt that is followed by a
\* further attempt has notifyErr invoked once in between, and a successful
\* open or commit invokes notifyOK.
C8_NotifyOnEveryRetry ==
    [][/\ (wpc = "openErr" /\ wpc' \in {"open", "backoff"}) =>
             openNotify' = NotifyErr(openNotify)
       /\ (cpc = "failed" /\ cpc' = "wait") =>
             commitNotify' = NotifyErr(commitNotify)
       /\ (wpc = "open" /\ wpc' = "read") =>
             openNotify' = NotifyOK(openNotify)
       /\ (cpc = "attempt" /\ cpc' = "return") =>
             commitNotify' = NotifyOK(commitNotify)]_vars

\* C9: the cursor of every batch NextEvents returns carries the stream id
\* the broker returned for the connection the batch was written on.
C9_CursorStreamId ==
    \A i \in 1..Len(delivered) :
       IsBatch(delivered[i].item) =>
          delivered[i].item.cursor.sid =
             BrokerStreamId(delivered[i].item.events[1].conn)

\* batches of two different streams were returned
C9_Witness ==
    \E i, j \in 1..Len(delivered) :
       /\ IsBatch(delivered[i].item)
       /\ IsBatch(delivered[j].item)
       /\ delivered[i].item.events[1].conn = 1
       /\ delivered[j].item.events[1].conn = 2

\* C10: every commit request carries the stream id of the cursor it commits
\* in its X-Nakadi-StreamId header, and a CommitCursor call that returns has
\* sent at least one request and returns the answer to its last request.
C10_CommitRoundTrip ==
    /\ lastReq.req.hdr = lastReq.cursor.sid
    /\ attempts > 0 => lastReq.cursor = commitCur
    /\ cpc = "return" =>
          /\ attempts >= 1
          /\ commitErr = lastReq.resp

\* the cursor of a stream the engine has recycled was committed while the
\* worker reads from the next stream, and the broker's rejection is returned
C10_Witness ==
    /\ cpc = "return"
    /\ commitErr = CommitRejected
    /\ stream # 0
    /\ CurrentStreamId # commitCur.sid
    /\ ~ctxDone

(* ----------------------- claims on CommitCursor ------------------------ *)

\* the running CommitCursor call is about to return an error
CommitReturnsError == cpc = "return" /\ commitErr # NoErr

\* C11 as stated: when every attempt fails, CommitCursor with commit retry
\* enabled makes at least two attempts and invokes notifyErr before each
\* retry, and with commit retry disabled it makes exactly one attempt.
C11_RetryBound ==
    CommitReturnsError =>
       /\ commitNotify.err >= attempts - 1
       /\ commitRetry => attempts >= 2
       /\ ~commitRetry => attempts = 1

\* C11, amended: when every attempt fails, CommitCursor with commit retry
\* enabled invokes notifyErr before each retry and retries until the commit
\* max elapsed time is exceeded or the engine is closed, then returns the
\* error of its last attempt; with commit retry disabled it makes exactly
\* one attempt and invokes no notifyErr.
C11_RetryUntilElapsedOrClosed ==
    /\ cpc = "attempt" => commitNotify.err = attempts
    /\ cpc = "failed" => commitNotify.err = attempts - 1
    /\ cpc = "wait" => commitRetry /\ commitNotify.err = attempts
    /\ timedOut => commitRetry /\ cpc = "return"
    /\ CommitReturnsError =>
          /\ attempts >= 1
          /\ commitErr = lastReq.resp
          /\ commitNotify.err \in {attempts - 1, attempts}
          /\ commitNotify.err = attempts => ctxDone
          /\ commitRetry => (timedOut \/ ctxDone)
          /\ ~commitRetry => attempts = 1 /\ commitNotify.err = 0

\* a call with commit retry enabled on an open engine gave up after its
\* second failed attempt because the elapsed time was exceeded
C11_Witness ==
    /\ CommitReturnsError
    /\ commitRetry
    /\ ~ctxDone
    /\ timedOut
    /\ attempts = 2
    /\ commitNotify.err = 1

\* C12: CommitCursor returns nil exactly if its last attempt succeeded; a
\* call that returns nil has invoked notifyOK once, also after a failed
\* attempt, and a call that returns an error has not invoked it.
C12_CommitResult ==
    /\ commitNotify.ok <= 1
    /\ cpc # "return" => commitNotify.ok = 0
    /\ cpc = "return" =>
          /\ attempts >= 1
          /\ (commitErr = NoErr) <=> (lastReq.resp = NoErr)
          /\ commitErr = NoErr => commitNotify.ok = 1
          /\ commitErr # NoErr => commitNotify.ok = 0

\* the first attempt failed, the retry succeeded
C12_Witness ==
    /\ cpc = "return"
    /\ commitErr = NoErr
    /\ attempts = 2
    /\ commitNotify = [err |-> 1, ok |-> 1]

(* ------------------------ claims on the processor ---------------------- *)

\* the worker of the slot of batch b is no longer busy with it
MovedOn(b) ==
    ~(ppc[blog[b].slot] \in {"op", "commit"} /\ pcursor[blog[b].slot].off = b)

\* a Stop call that went on to collect close results has returned
StopSucceeded == stopResult \notin {NoResult, NotRunning}

\* C13: Start on a started processor returns "processor was already
\* started" and starts no worker; Stop on a processor that was never started
\* returns "processor is not running" and does not cancel.
C13_StartStopGuard ==
    [][/\ (starts' = starts + 1 /\ isStarted) =>
             /\ startResult' = AlreadyStarted
             /\ UNCHANGED <<ppc, engines, isStarted>>
       /\ (stops' = stops + 1 /\ ~isStarted) =>
             /\ stopResult' = NotRunning
             /\ spc' = "return"
             /\ UNCHANGED <<pctxDone, ppc>>]_allVars

\* Stop failed on the fresh processor, Start succeeded, a second Start
\* failed, and the workers of the first Start are the only ones
C13_Witness ==
    /\ stopResult = NotRunning
    /\ startResult = AlreadyStarted
    /\ ~pctxDone
    /\ Len(engines) = StreamCount
    /\ \A k \in Slots : ppc[k] = "next"

\* C14 as stated: once a Stop that followed a Start has returned, the
\* processor is not running, and a further Stop takes the "processor is not
\* running" return instead of waiting for close results.
C14_StopOnStopped ==
    /\ (StopSucceeded /\ spc = "idle") => ~isStarted
    /\ spc = "collect" => ~StopSucceeded

\* C15: the operation is invoked once for every batch a worker received,
\* with the worker's stream number and the batch's stream id; after a
\* success the worker commits that batch's cursor once on the engine that
\* delivered it, and it has done so when it asks for the next batch.
C15_AutoCommit ==
    \A b \in 1..Len(blog) :
       LET r == blog[b] IN
       /\ Len(r.ops) <= 1
       /\ Len(r.commits) <= 1
       /\ \A i \in 1..Len(r.ops) :
             r.ops[i] = [no |-> r.slot, sid |-> r.cursor.sid]
       /\ \A i \in 1..Len(r.commits) :
             /\ r.result = "ok"
             /\ r.commits[i] = [engine |-> r.engine, cursor |-> r.cursor]
       /\ r.cursor.sid = BrokerStreamId(r.engine)
       /\ engines[r.engine].slot = r.slot
       /\ MovedOn(b) =>
             /\ Len(r.ops) = 1
             /\ r.result = "ok" => Len(r.commits) = 1

\* a worker has committed a batch and received the next one from the same
\* engine
C15_Witness ==
    \E b, c \in 1..Len(blog) :
       /\ b < c
       /\ blog[b].slot = blog[c].slot
       /\ blog[b].engine = blog[c].engine
       /\ blog[b].result = "ok"
       /\ Len(blog[b].commits) = 1

\* C16: after the operation failed on a batch, the engine that delivered it
\* is closed, the slot holds a fresh engine, and the batch's cursor is never
\* committed.
C16_RecycleOnFailure ==
    \A b \in 1..Len(blog) :
       LET r == blog[b] IN
       r.result = "fail" =>
          /\ r.commits = <<>>
          /\ engines[r.engine].closed
          /\ pstream[r.slot] > r.engine
          /\ engines[pstream[r.slot]].slot = r.slot
          /\ \A c \in 1..Len(blog) :
                (c > b /\ blog[c].slot = r.slot) => blog[c].engine > r.engine

\* the operation failed on a batch and the slot's fresh engine has delivered
\* the next batch
C16_Witness ==
    \E b, c \in 1..Len(blog) :
       /\ b < c
       /\ blog[b].slot = blog[c].slot
       /\ blog[b].result = "fail"
       /\ blog[c].engine # blog[b].engine
       /\ ~pctxDone

\* C17: when NextEvents returns an error the worker invokes no operation,
\* commits nothing and keeps its engine, and its next step is the next
\* round of its loop.
C17_ContinueOnReadError ==
    /\ [][\A k \in Slots :
            (ppc[k] = "next" /\ ppc'[k] # "op") =>
               /\ ppc'[k] \in {"next", "retry"}
               /\ UNCHANGED <<pstream[k], pcursor[k]>>
               /\ ppc'[k] = "retry" =>
                     UNCHANGED <<blog, engines, pstream, pcursor, hooks>>]_allVars
    /\ [][\A k \in Slots :
            (ppc[k] = "retry" /\ ppc'[k] # "retry" /\ ~pctxDone) =>
               /\ ppc'[k] = "next"
               /\ UNCHANGED <<blog, engines, pstream, pcursor, hooks>>]_allVars

\* a worker is back at the head of its loop after a read error of its first
\* engine, which is still open
C17_Witness ==
    \E k \in Slots :
       /\ ppc[k] = "retry"
       /\ ~pctxDone
       /\ ~engines[pstream[k]].closed
       /\ Len(engines) = StreamCount

\* C18 as stated: a Stop on the running processor cancels, receives one
\* close result from each worker and returns, in whatever state the
\* workers are.
C18_StopTerminates ==
    /\ [](spc = "collect" => pctxDone)
    /\ []((spc = "return" /\ received > 0) =>
             (received = StreamCount /\ \A k \in Slots : ppc[k] = "done"))
    /\ (spc = "collect" /\ ~StopSucceeded) ~> (spc = "return")

\* the number of workers whose engine's Close returned an error
FailedCloses == Cardinality({k \in Slots : pcloseRes[k] # NoErr})

\* C19: a Stop that collected the close results returns nil if no engine's
\* Close returned an error and otherwise an error that carries the number
\* of engines whose Close did.
C19_StopResult ==
    (spc = "return" /\ received = StreamCount) =>
       /\ \A k \in Slots : ppc[k] = "done"
       /\ FailedCloses = 0 => stopResult = NoErr
       /\ FailedCloses > 0 => stopResult = CloseCountErr(FailedCloses)

\* Stop returns the error that counts a failed Close of every engine
C19_Witness ==
    /\ spc = "return"
    /\ received = StreamCount
    /\ stopResult = CloseCountErr(StreamCount)

\* C20 as stated: the hooks invoked for the engine of slot k are invoked
\* with stream number k.
C20_HookStreamNo ==
    \A h \in hooks : h.no = h.slot

\* C21 as stated: when the commit of a processed batch fails, the worker
\* goes on to the next batch only after NotifyErr was invoked for it.
C21_CommitFailureNotified ==
    [][\A k \in Slots :
          (/\ ppc[k] = "commit"
           /\ ppc'[k] # "commit"
           /\ Hook(k, "ok") \notin hooks') => Hook(k, "err") \in hooks']_allVars

\* the calls of the publish API the dispatcher made, by index
DispatchRequests == {i \in 1..Len(requests) : requests[i].by = "dispatch"}

\* the calls of the publish API made by Publish for a slice, by index
CallerRequests == {i \in 1..Len(requests) : requests[i].by = "caller"}

InSeq(e, s) == \E j \in 1..Len(s) : s[j] = e

Occurrences(e, s) == Cardinality({j \in 1..Len(s) : s[j] = e})

\* the dispatcher's calls that contain the event e
RequestsOf(e) == {i \in DispatchRequests : InSeq(e, requests[i].events)}

\* the number of results the caller of e was given
ResultsOf(e) == Len(publishResult[e]) + (IF ppcall[e] = "returned" THEN 1 ELSE 0)

\* C22: every batch the dispatcher passes to the publish API has at least
\* one and at most MaxBatchSize events.
C22_BatchSize ==
    \A i \in DispatchRequests :
       /\ Len(requests[i].events) >= 1
       /\ Len(requests[i].events) <= MaxBatchSize

\* a full batch and a batch of one event were published, and Close was
\* called
C22_Witness ==
    /\ chanClosed
    /\ \E i, j \in DispatchRequests :
          /\ Len(requests[i].events) = MaxBatchSize
          /\ Len(requests[j].events) = 1
          /\ requests[i].done
          /\ requests[j].done

\* C23: the value Publish returns for a single event is the result of the
\* one publish call whose batch contained the event; so are the results
\* handed to the callers that have not returned yet.
C23_FanOut ==
    \A e \in Callers :
       /\ ppcall[e] = "returned" =>
             \E i \in RequestsOf(e) :
                /\ RequestsOf(e) = {i}
                /\ requests[i].done
                /\ returned[e] = requests[i].err
       /\ \A j \in 1..Len(publishResult[e]) :
             \E i \in RequestsOf(e) :
                /\ RequestsOf(e) = {i}
                /\ requests[i].done
                /\ publishResult[e][j] = requests[i].err

\* two callers of one failed batch returned its error and the caller of
\* another batch returned nil
C23_Witness ==
    \E a, b, c \in Callers :
       /\ a # b
       /\ ppcall[a] = "returned"
       /\ ppcall[b] = "returned"
       /\ ppcall[c] = "returned"
       /\ RequestsOf(a) = RequestsOf(b)
       /\ RequestsOf(c) # RequestsOf(a)
       /\ returned[a].k = "publish"
       /\ returned[b] = returned[a]
       /\ returned[c] = NoErr

\* C24: an enqueued event is in the queue, or in the batch being collected
\* or published, or in one completed publish call, and never in two of
\* them; its caller is given one result, with the completion of that call;
\* when the dispatcher has ended no enqueued event is left over.
C24_ExactlyOnce ==
    \A e \in Callers :
       LET queued == Occurrences(e, eventsChannel)
           held == Occurrences(e, batch)
           done == {i \in RequestsOf(e) : requests[i].done}
       IN  /\ ppcall[e] \in {"wait", "returned"} <=> InSeq(e, arrived)
           /\ Occurrences(e, arrived) <= 1
           /\ InSeq(e, arrived) => queued + held + Cardinality(done) = 1
           /\ ~InSeq(e, arrived) => queued + held + Cardinality(done) = 0
           /\ \A i \in RequestsOf(e) : Occurrences(e, requests[i].events) = 1
           /\ Cardinality(RequestsOf(e)) <= 1
           /\ \A i \in RequestsOf(e) : ~requests[i].done => held = 1
           /\ ResultsOf(e) = Cardinality(done)
           /\ (dpc \in {"exit", "done"} /\ InSeq(e, arrived)) =>
                 Cardinality(done) = 1

\* three events were published in two calls and their callers returned,
\* without Close
C24_Witness ==
    /\ ~chanClosed
    /\ Len(arrived) = 3
    /\ \A e \in Callers : ppcall[e] = "returned"
    /\ Cardinality(DispatchRequests) = 2

RECURSIVE Flushed(_)
\* the events of the dispatcher's first n publish calls, in flush order
Flushed(n) ==
    IF n = 0 THEN <<>>
    ELSE Flushed(n - 1) \o (IF requests[n].by = "dispatch"
                            THEN requests[n].events ELSE <<>>)

\* C25: the batches in flush order, then the batch being collected, then
\* the queue, give the events in the order of their arrival at the queue.
C25_Order ==
    Flushed(Len(requests)) \o (IF dpc = "publishing" THEN <<>> ELSE batch)
       \o eventsChannel = arrived

\* event 2 arrived before event 1: a batch of these two in this order and
\* then a batch of event 3 were published
C25_Witness ==
    /\ arrived = <<2, 1, 3>>
    /\ Flushed(Len(requests)) = arrived
    /\ \E i \in DispatchRequests :
          /\ requests[i].events = <<2, 1>>
          /\ \E j \in DispatchRequests : j > i /\ requests[j].events = <<3>>

\* C26: a publish call of the dispatcher begins only when all its earlier
\* calls have returned and their results have been handed to the callers;
\* the call in flight is the one the dispatcher is waiting for.
C26_SequentialFlush ==
    \A i \in DispatchRequests :
       /\ \A j \in DispatchRequests : j < i => requests[j].done
       /\ requests[i].done =>
             \A e \in Callers :
                InSeq(e, requests[i].events) => ResultsOf(e) = 1
       /\ ~requests[i].done =>
             /\ dpc = "publishing"
             /\ requests[i].events = batch

\* the second publish call of the dispatcher is in flight
C26_Witness ==
    \E i, j \in DispatchRequests :
       /\ i < j
       /\ requests[i].done
       /\ ~requests[j].done

\* C27: a slice given to Publish is passed unchanged to the publish API in
\* a call of its own, whose result Publish returns; its events are never in
\* the queue, in a batch or in a call of the dispatcher.
C27_SlicePassThrough ==
    /\ \A i \in CallerRequests :
          \E n \in SliceCallers :
             /\ requests[i].events = SliceValue(n)
             /\ spcall[n] # "idle"
             /\ requests[i].done <=> spcall[n] = "returned"
             /\ requests[i].done => sreturned[n] = requests[i].err
    /\ \A n \in SliceCallers :
          /\ Cardinality({i \in CallerRequests :
                            requests[i].events = SliceValue(n)})
                = (IF spcall[n] = "idle" THEN 0 ELSE 1)
          /\ \A j \in 1..Len(SliceValue(n)) :
                LET x == SliceValue(n)[j] IN
                /\ ~InSeq(x, eventsChannel)
                /\ ~InSeq(x, batch)
                /\ ~InSeq(x, arrived)
                /\ \A i \in DispatchRequests : ~InSeq(x, requests[i].events)
    /\ \A i \in CallerRequests :
          \A e \in Callers : ~InSeq(e, requests[i].events)

\* a slice call returned the error of its own publish call while a batch of
\* single events was published with success
C27_Witness ==
    \E n \in SliceCallers :
       /\ spcall[n] = "returned"
       /\ sreturned[n].k = "publish"
       /\ \E i \in DispatchRequests :
             /\ requests[i].done
             /\ requests[i].err = NoErr
             /\ i < sreturned[n].s

\* C28: when Close has returned the queue is closed, the dispatcher has
\* ended, and every enqueued event is in a completed publish call whose
\* result has been handed to the event's caller.
C28_Close ==
    clpc = "returned" =>
       /\ chanClosed
       /\ dpc = "done"
       /\ eventsChannel = <<>>
       /\ \A i \in DispatchRequests : requests[i].done
       /\ \A j \in 1..Len(arrived) :
             /\ \E i \in RequestsOf(arrived[j]) : requests[i].done
             /\ ResultsOf(arrived[j]) = 1

\* Close has returned after the dispatcher published the batch it was
\* collecting when the queue was closed, before its deadline
C28_Witness ==
    /\ clpc = "returned"
    /\ deadline = "nil"
    /\ Len(arrived) >= 2
    /\ \E e \in Callers : ppcall[e] = "wait"

\* C29: a batch that holds an event is eventually flushed, and from some
\* time on no caller waits for a result.
C29_DeadlineFlush ==
    /\ (batch # <<>>) ~> (batch = <<>>)
    /\ <>[](\A e \in Callers : ppcall[e] # "wait")

\* a batch of one event was published and its caller returned while no
\* other event was submitted and Close was not called
C29_Witness ==
    /\ ~chanClosed
    /\ arrived = <<1>>
    /\ ppcall[1] = "returned"
    /\ ppcall[2] = "idle"
    /\ \E i \in DispatchRequests : requests[i].done

\* C30: when the token provider fails on an attempt of a GET, PUT, POST or
\* DELETE call, no request is sent for that attempt, no further attempt is
\* made whatever the backoff policy still grants, and the call returns an
\* error.
C30_TokenFailurePermanent ==
    htokenFailedAt > 0 =>
       /\ hpc \in {"done", "published"}
       /\ hresult = TokenErr
       /\ hattempts = htokenFailedAt
       /\ hsent = htokenFailedAt - 1

\* the token provider failed on the second attempt of a call whose policy
\* grants a further attempt
C30_Witness ==
    /\ htokenFailedAt = 2
    /\ hleft > 0
    /\ hmethod = "POST"

\* the call has returned to its caller
HttpReturned == hpc \in {"done", "published"}

\* the error of an attempt on which the backoff policy decides
Transient(err) ==
    \/ err \in {TransportErr, RetryBodyReadErr}
    \/ err.k = "status" /\ err.s >= 500

\* C31: an attempt that ends in a transport error or a response of 500 or
\* above is followed by a further attempt as long as the policy grants one,
\* a response below 500 ends the call, and a call that succeeded after k
\* such failures made k + 1 attempts.
C31_RetryClassification ==
    /\ hfailures <= hattempts
    /\ hsent <= hattempts
    /\ (HttpReturned /\ Transient(hresult)) =>
          /\ hleft = 0
          /\ hfailures = hattempts
    /\ (hstatus # 0 /\ hstatus < 500 /\ hpc # "backoff") =>
          /\ HttpReturned
          /\ hfailures = hattempts - 1
    /\ (HttpReturned /\ hresult = NoErr) =>
          /\ hattempts = hfailures + 1
          /\ hsent = hattempts
          /\ hstatus # 0
          /\ hstatus < 500

\* a call succeeded on its third attempt, after two attempts that ended in
\* a transport error or a response of 503
C31_Witness ==
    /\ hpc = "done"
    /\ hretry
    /\ hresult = NoErr
    /\ hfailures = 2
    /\ hattempts = 3

\* C32 as stated: with Retry disabled every call makes exactly one attempt,
\* and a transient failure of that attempt is the error of the call.
C32_NoRetry ==
    (~hretry /\ HttpReturned) =>
       /\ hattempts = 1
       /\ hfailures = 1 => Transient(hresult)

\* C32 amended: with Retry disabled a call whose body was encoded (every GET
\* and DELETE call) makes exactly one attempt, and a transient failure of
\* that attempt is the error of the call; a PUT or POST call whose body
\* cannot be encoded returns that error without an attempt and without a
\* request.
C32_NoRetryEncoded ==
    ~hretry =>
       /\ hattempts <= 1
       /\ hpc \notin {"encode", "attempt"} =>
             (hattempts = 1 <=> hresult # EncodeErr)
       /\ hresult = EncodeErr =>
             /\ HttpReturned
             /\ hmethod \in {"PUT", "POST"}
             /\ hsent = 0
       /\ (HttpReturned /\ hfailures = 1) => Transient(hresult)

\* a call without retry has returned the error of a response of 503
C32_Witness ==
    /\ ~hretry
    /\ hpc = "done"
    /\ hattempts = 1
    /\ hresult = StatusErr(503)

\* C33 as stated: every error a call returns has the caller's error
\* context as its first part.
C33_ErrorContext ==
    (HttpReturned /\ hresult # NoErr) =>
       Head(ErrorText(hmethod, hresult)) = Msg

\* C34: PublishAPI.Publish returns nil for a final response of 200 and for
\* no other; for 207 and 422 it returns the BatchItemsError with the records
\* of the body; for any other status the broker's error; an error of the
\* request is returned as it is.
C34_PublishStatus ==
    hpc = "published" =>
       /\ presult = PublishOK <=> (hresult = NoErr /\ hstatus = 200)
       /\ (hresult = NoErr /\ hstatus \in {207, 422} /\ pbody.json = "items") =>
             presult = BatchItemsError(pbody.items)
       /\ (hresult = NoErr /\ hstatus \notin {200, 207, 422}
             /\ pbody.json # "unreadable") => presult = PublishFailed("status")
       /\ hresult # NoErr => presult = PublishFailed(hresult.k)

\* Publish returned a BatchItemsError with two records for a response of 207
C34_Witness ==
    /\ hpc = "published"
    /\ hstatus = 207
    /\ presult = BatchItemsError(<<"submitted", "failed">>)

\* C38 as stated: every attempt of a POST or PUT call sends the encoded
\* body.
C38_RetryPayload ==
    \A i \in 1..Len(hbodies) :
       hmethod \in {"POST", "PUT"} => hbodies[i] = "encoded"

\* C35: once closeStream was called, the reader has no buffer, a nextEvents
\* call returns "stream is closed" and reads nothing, and further
\* closeStream calls leave it so.
C35_ReaderClosed ==
    [][rcloses > 0 =>
          /\ ~rbuffer
          /\ ~rbuffer'
          /\ rbody' = "closed"
          /\ UNCHANGED rreads
          /\ rcalls' = rcalls + 1 => rlast' = "stream is closed"]_allVars

\* nextEvents returned "stream is closed" after the second closeStream and
\* after a batch was read before the first
C35_Witness ==
    /\ rcloses = 2
    /\ rcalls = 2
    /\ rreads = 1
    /\ rlast = "stream is closed"

\* C36 as stated: when nextEvents has returned a batch, the timer of its
\* read was stopped and has not closed the response body.
C36_Watchdog ==
    (rpc = "idle" /\ rlast = "batch") => rtimer # "fired"

\* C37: a CommitCursor call on a closed engine still invokes the committer:
\* when it returns, at least one request for its cursor was sent and the
\* value returned is the answer to the last request, so nil is returned only
\* after a successful attempt.
C37_CommitAfterClose ==
    (ctxDone /\ cpc = "return") =>
       /\ attempts >= 1
       /\ lastReq.cursor = commitCur
       /\ lastReq.req = CommitRequest(commitCur, CurrentStreamId)
       /\ commitErr = lastReq.resp

\* the engine was closed and its worker has terminated, a commit made one
\* attempt and returns nil
C37_Witness ==
    /\ ctxDone
    /\ wpc = "done"
    /\ cpc = "return"
    /\ attempts = 1
    /\ commitErr = NoErr

\* the readers of the worker that are open
OpenReaders == {i \in 1..Len(streams) : ~streams[i].closed}

\* C39: the worker holds at most one open reader, the one it reads from; a
\* reader is opened only while no reader is open, the only reader ever
\* closed is the open one the worker holds, which it then drops, and after
\* the worker has terminated no reader is open.
C39_ReaderOwnership ==
    /\ [](/\ Cardinality(OpenReaders) <= 1
          /\ OpenReaders = IF stream = 0 THEN {} ELSE {stream}
          /\ wpc \in {"read", "reading", "send"} => stream # 0
          /\ wpc \in {"open", "openErr", "backoff", "done"} => stream = 0)
    /\ [][/\ Len(streams') > Len(streams) =>
               /\ OpenReaders = {}
               /\ streams' = Append(streams, NewSimpleStream(Len(streams) + 1))
               /\ stream' = Len(streams')
          /\ (Len(streams') = Len(streams) /\ streams' # streams) =>
               /\ stream \in OpenReaders
               /\ streams' = [streams EXCEPT ![stream] = closeStream(@)]
               /\ stream' = 0]_allVars

\* two readers were opened, the first was closed after a read error and the
\* second when the worker terminated on cancellation
C39_Witness ==
    /\ wpc = "done"
    /\ Len(streams) = 2
    /\ OpenReaders = {}
    /\ \E i \in 1..Len(produced) : produced[i].err.k = "read"

\* C40: a Publish call never sends on the closed input queue
C40_PublishAfterClose ==
    \A e \in Callers : ppcall[e] # "panic"

====
